---- MODULE Spec2Model ----
(***************************************************************************)
(* A model of resw-rs (src/src/lib.rs): the language-resolved containers,  *)
(* identifier conversion, the resource document (Build) and the script     *)
(* serializer.  Output is modelled as the byte stream the code writes.     *)
(*                                                                         *)
(* Encodings used throughout:                                              *)
(*   Option<T>   None is <<>>, Some(x) is <<x>>                            *)
(*   Lang        <<primary, sub>>, two WORDs                               *)
(*   BTreeMap    a sequence of [key, val] records in ascending key order   *)
(*   str / [u8]  a sequence of bytes 0..255                                *)
(***************************************************************************)
EXTENDS Integers, Sequences, FiniteSets, TLC

VARIABLES
    opt,        \* SpecOption: an OptionLangSpecific<T>
    optLog,     \* SpecOption: history of the insert_* calls made on opt
    vec,        \* SpecVec: a VecLangSpecific<T>
    vecLog,     \* SpecVec: history of the push_* calls made on vec
    idIn,       \* SpecId: the isize handed to Id::from
    idOut,      \* SpecId: what Id::from did with it
    resources,  \* SpecBuild: Build.resources
    declared,   \* SpecBuild: the languages the document was created for
    declLog,    \* SpecBuild: history of the declarations made on the document
    phase,      \* SpecBuild: "building", or "generated" once serialized
    out,        \* SpecBuild: the writer generate_rc_file wrote to
    curDir,     \* SpecBuild: the working directory of the process
    menu,       \* SpecMenu: the MenuData being built
    menuPhase,  \* SpecMenu: "building", or "rendered"
    menuOut,    \* SpecMenu: per language, the writer the menu was rendered to
    builder,    \* SpecResource: the resource a builder is filling
    resLog,     \* SpecResource: history of the calls made on builder
    resPhase,   \* SpecResource: "building", or "rendered"
    resOut,     \* SpecResource: per language, the writer it was rendered to
    cgIn,       \* SpecCodegen: the function of mod codegen called and its argument
    cgOut       \* SpecCodegen: the writer it wrote to

vars == <<opt, optLog, vec, vecLog, idIn, idOut,
          resources, declared, declLog, phase, out, curDir,
          menu, menuPhase, menuOut,
          builder, resLog, resPhase, resOut, cgIn, cgOut>>

(***************************************************************************)
(* Bounds of the model.                                                    *)
(***************************************************************************)
MaxOptOps == 4
MaxDecls == 2
MaxMenuItems == 2
MaxResOps == 3
MaxChars == 2
MaxFailAt == 12
MaxVecOps == 4
NumValues == 2
IdProbe == 40

Values == 1..NumValues

(***************************************************************************)
(* Option<T>                                                               *)
(***************************************************************************)
None == <<>>
Some(x) == <<x>>
IsSome(o) == o # <<>>
Unwrap(o) == o[1]

(***************************************************************************)
(* Lang (lib.rs:14-15) and the language constants of mod lang.  The derived*)
(* Ord compares the primary field first, then the sub field.               *)
(***************************************************************************)
LANG_ENU == <<9, 1>>
LANG_CHS == <<4, 2>>
LANG_CHT == <<4, 1>>
Langs == {LANG_ENU, LANG_CHS, LANG_CHT}

\* ordering by sub-language first
LangLess_sub_first(a, b) == a[2] < b[2] \/ (a[2] = b[2] /\ a[1] < b[1])

LangLess(a, b) == a[1] < b[1] \/ (a[1] = b[1] /\ a[2] < b[2])

\* derived Ord of Option<Lang>: None sorts before every Some
OptLangLess(a, b) ==
    IF a = None THEN b # None
    ELSE IF b = None THEN FALSE
    ELSE LangLess(Unwrap(a), Unwrap(b))

\* Ord of a BTreeMap key: the crate keys its maps by Lang (a pair) or by
\* Option<Lang> (empty, or one pair)
KeyLess(a, b) == IF Len(a) = 2 /\ Len(b) = 2 THEN LangLess(a, b) ELSE OptLangLess(a, b)

(***************************************************************************)
(* std BTreeMap, as far as the crate uses it: insert (replace on an equal  *)
(* key), get, entry(k).or_default(), iteration in ascending key order.     *)
(***************************************************************************)
BTreeKeys(m) == {m[i].key : i \in 1..Len(m)}
BTreeHas(m, k) == \E i \in 1..Len(m) : m[i].key = k
BTreeGet(m, k) ==
    IF BTreeHas(m, k)
    THEN Some((CHOOSE e \in {m[i] : i \in 1..Len(m)} : e.key = k).val)
    ELSE None

\* position at which key k goes: after every smaller key
BTreeRank(m, k) == Cardinality({i \in 1..Len(m) : KeyLess(m[i].key, k)})

BTreeInsert(m, k, v) ==
    LET r == BTreeRank(m, k)
        e == [key |-> k, val |-> v]
    IN  IF r < Len(m) /\ m[r + 1].key = k
        THEN [m EXCEPT ![r + 1] = e]
        ELSE SubSeq(m, 1, r) \o <<e>> \o SubSeq(m, r + 1, Len(m))

BTreeEntryOrDefault(m, k, dflt) ==
    IF BTreeHas(m, k) THEN m ELSE BTreeInsert(m, k, dflt)

(***************************************************************************)
(* OptionLangSpecific<T> (lib.rs:500-540)                                  *)
(***************************************************************************)
OptionLangSpecific_default == <<>>

insert_lang_specific_keep_first(m, lang, v) ==
    BTreeEntryOrDefault(m, Some(lang), v)

insert_lang_specific(m, lang, v) == BTreeInsert(m, Some(lang), v)

insert_universal(m, v) == BTreeInsert(m, None, v)

get_universal_first(m, lang) ==
    IF IsSome(BTreeGet(m, None)) THEN BTreeGet(m, None)
    ELSE IF IsSome(BTreeGet(m, Some(lang))) THEN BTreeGet(m, Some(lang))
    ELSE None

get(m, lang) ==
    IF IsSome(BTreeGet(m, Some(lang))) THEN BTreeGet(m, Some(lang))
    ELSE IF IsSome(BTreeGet(m, None)) THEN BTreeGet(m, None)
    ELSE None

(***************************************************************************)
(* VecLangSpecific<T> (lib.rs:542-564): a Vec of (Option<Lang>, T) pairs,  *)
(* modelled as a sequence of <<key, value>>.                               *)
(***************************************************************************)
VecLangSpecific_default == <<>>

push_universal(v, x) == Append(v, <<None, x>>)

push_lang_specific(v, lang, x) == Append(v, <<Some(lang), x>>)

RECURSIVE iter_skip_universal(_, _)
iter_skip_universal(v, lang) ==
    IF v = <<>> THEN <<>>
    ELSE (IF Head(v)[1] = Some(lang) THEN <<Head(v)[2]>> ELSE <<>>)
             \o iter_skip_universal(Tail(v), lang)

iter_grouped(v, lang) ==
    iter_skip_universal(SelectSeq(v, LAMBDA e : e[1] = None), lang)
        \o iter_skip_universal(v, lang)

\* self.0.iter().filter(key is None or Some(lang)).map(value)
RECURSIVE iter(_, _)
iter(v, lang) ==
    IF v = <<>> THEN <<>>
    ELSE (IF Head(v)[1] = None \/ Head(v)[1] = Some(lang)
          THEN <<Head(v)[2]>> ELSE <<>>)
             \o iter(Tail(v), lang)

(***************************************************************************)
(* Id (lib.rs:55-79).  WORD is u16; isize values are kept as integers and  *)
(* `v as u16` is the value modulo 2^16.                                    *)
(***************************************************************************)
WORD_MAX == 65535
WORD_MODULUS == 65536

AsU16(v) == v % WORD_MODULUS

Id_from_isize_truncating(v) == [st |-> "ok", id |-> AsU16(v)]

\* match v { -1..=0xFFFF => v as u16, _ => panic!(..) }
Id_from_isize(v) ==
    IF -1 <= v /\ v <= WORD_MAX
    THEN [st |-> "ok", id |-> AsU16(v)]
    ELSE [st |-> "panic", id |-> 0]

\* impl Display for Id: the decimal digits of the stored WORD
RECURSIVE DecDigits(_)
DecDigits(n) ==
    IF n < 10 THEN <<48 + n>> ELSE Append(DecDigits(n \div 10), 48 + (n % 10))

Id_display(id) == DecDigits(id)

(***************************************************************************)
(* The output stream.  No write of the serializer returns data and every   *)
(* write is followed by `?` (or is the function's result), so a rendering  *)
(* function is modelled by the sequence of effects it performs when        *)
(* nothing fails, in order: one "w" effect per write call with the bytes   *)
(* written, one "diag" effect per warning printed to stderr, one "panic"   *)
(* effect where the code aborts.  Run plays such a sequence against a sink *)
(* that accepts `budget` write calls (None: every one) and stops at the    *)
(* first failed write or abort, as `?` and a panic do.  A write call that  *)
(* fails is taken to have written nothing.                                 *)
(***************************************************************************)
NoId == [tag |-> "Id", num |-> 0, name |-> <<>>]

W(bytes) == <<[t |-> "w", b |-> bytes, x |-> NoId, why |-> ""]>>
\* unimplemented!()
PanicEffect == <<[t |-> "panic", b |-> <<>>, x |-> NoId, why |-> "unimplemented"]>>
\* .expect("unreachable!") / .unwrap() on data that is not there
ExpectFailed == <<[t |-> "panic", b |-> <<>>, x |-> NoId, why |-> "missing_data"]>>
Eprintln(what) == <<[t |-> "diag", b |-> <<>>, x |-> what, why |-> ""]>>

\* the concatenation of a sequence of sequences
RECURSIVE Flatten(_)
Flatten(ss) ==
    IF Len(ss) = 0 THEN <<>>
    ELSE IF Len(ss) = 1 THEN ss[1]
    ELSE LET h == Len(ss) \div 2
         IN  Flatten(SubSeq(ss, 1, h)) \o Flatten(SubSeq(ss, h + 1, Len(ss)))

StopIndex_ignoring_budget(effects, budget) ==
    LET panics == {i \in 1..Len(effects) : effects[i].t = "panic"}
    IN  IF panics = {} THEN 0 ELSE CHOOSE i \in panics : \A j \in panics : i <= j

\* the index of the effect at which the run stops, 0 if it completes: the
\* first abort, or the first write call beyond the sink's budget
StopIndex(effects, budget) ==
    LET panics == {i \in 1..Len(effects) : effects[i].t = "panic"}
        writeIdx == SelectSeq([i \in 1..Len(effects) |-> i],
                              LAMBDA i : effects[i].t = "w")
        stops == panics \cup
                 (IF budget # None /\ Len(writeIdx) > Unwrap(budget)
                  THEN {writeIdx[Unwrap(budget) + 1]} ELSE {})
    IN  IF stops = {} THEN 0 ELSE CHOOSE i \in stops : \A j \in stops : i <= j

Run(effects, budget) ==
    LET stop == StopIndex(effects, budget)
        done == IF stop = 0 THEN effects ELSE SubSeq(effects, 1, stop - 1)
        writes == SelectSeq(done, LAMBDA e : e.t = "w")
        diags == SelectSeq(done, LAMBDA e : e.t = "diag")
    IN  [ buf |-> Flatten([i \in 1..Len(writes) |-> writes[i].b]),
          st |-> IF stop = 0 THEN "ok"
                 ELSE IF effects[stop].t = "panic" THEN "panic" ELSE "io_error",
          why |-> IF stop # 0 /\ effects[stop].t = "panic" THEN effects[stop].why ELSE "",
          cap |-> budget,
          writes |-> Len(writes),
          diag |-> [i \in 1..Len(diags) |-> diags[i].x] ]

NothingWritten == Run(<<>>, None)

(***************************************************************************)
(* String literals of the code, as bytes.                                  *)
(***************************************************************************)
\* the two comment lines, the empty line and the code page pragma
HEADER_LINE_1 == <<47, 47, 32, 82, 101, 115, 111, 117, 114, 99, 101, 32, 115, 99, 114, 105, 112, 116, 32, 97, 117, 116, 111, 109, 97, 116, 105, 99, 97, 108, 108, 121, 32, 103, 101, 110, 101, 114, 97, 116, 101, 100, 32, 98, 121, 32, 82, 69, 83, 87, 45, 82, 83, 46, 10>>
HEADER_LINE_2 == <<47, 47, 32, 68, 111, 32, 110, 111, 116, 32, 101, 100, 105, 116, 32, 116, 104, 105, 115, 32, 102, 105, 108, 101, 32, 109, 97, 110, 117, 97, 108, 108, 121, 46, 10>>
HEADER_LINE_3 == <<10>>
HEADER_LINE_4 == <<35, 112, 114, 97, 103, 109, 97, 32, 99, 111, 100, 101, 95, 112, 97, 103, 101, 40, 54, 53, 48, 48, 49, 41, 10>>
\* LANGUAGE 0x
LIT_LANGUAGE == <<76, 65, 78, 71, 85, 65, 71, 69, 32, 48, 120>>
\* comma, space, 0x
LIT_COMMA_0X == <<44, 32, 48, 120>>
LIT_NL == <<10>>
LIT_SP == <<32>>
LIT_COMMA_SP == <<44, 32>>
LIT_TAB == <<9>>
LIT_QUOTE == <<34>>
LIT_BACKSLASH == <<92>>
\* L and a double quote
LIT_WIDE_OPEN == <<76, 34>>
\* backslash, x
LIT_BACKSLASH_X == <<92, 120>>
LIT_TWO_BACKSLASHES == <<92, 92>>
LIT_L == <<76>>
\* 1 and a space
LIT_ONE_SP == <<49, 32>>
\* an opening brace, a newline
LIT_OPEN_BRACE_NL == <<123, 10>>
\* a closing brace, a newline
LIT_CLOSE_BRACE_NL == <<125, 10>>
LIT_POPUP == <<80, 79, 80, 85, 80>>
LIT_MENUITEM == <<77, 69, 78, 85, 73, 84, 69, 77>>
KW_ICON == <<73, 67, 79, 78>>
KW_STRINGTABLE == <<83, 84, 82, 73, 78, 71, 84, 65, 66, 76, 69>>
KW_MENUEX == <<77, 69, 78, 85, 69, 88>>
KW_ACCELERATORS == <<65, 67, 67, 69, 76, 69, 82, 65, 84, 79, 82, 83>>
KW_DIALOGEX == <<68, 73, 65, 76, 79, 71, 69, 88>>
KW_RCDATA == <<82, 67, 68, 65, 84, 65>>
KW_VERSIONINFO == <<86, 69, 82, 83, 73, 79, 78, 73, 78, 70, 79>>

(***************************************************************************)
(* Number formatting ({}, {:x}, {:04x}, {:03o} of std::fmt).               *)
(***************************************************************************)
DecSigned(n) == IF n < 0 THEN <<45>> \o DecDigits(0 - n) ELSE DecDigits(n)

HexDigit(d) == IF d < 10 THEN 48 + d ELSE 87 + d

RECURSIVE HexDigits(_)
HexDigits(n) ==
    IF n < 16 THEN <<HexDigit(n)>>
    ELSE Append(HexDigits(n \div 16), HexDigit(n % 16))

\* {:04x}: at least four hex digits, zero padded
Hex4(n) ==
    LET d == HexDigits(n)
    IN  IF Len(d) >= 4 THEN d ELSE [i \in 1..(4 - Len(d)) |-> 48] \o d

Octal3_unpadded(b) ==
    IF b < 8 THEN <<48 + b>>
    ELSE IF b < 64 THEN <<48 + (b \div 8), 48 + (b % 8)>>
    ELSE <<48 + (b \div 64), 48 + ((b \div 8) % 8), 48 + (b % 8)>>

\* {:03o} of a u8: three octal digits
Octal3(b) == <<48 + (b \div 64), 48 + ((b \div 8) % 8), 48 + (b % 8)>>

(***************************************************************************)
(* mod codegen (lib.rs:2238-2518)                                          *)
(***************************************************************************)
write_header ==
    W(HEADER_LINE_1) \o W(HEADER_LINE_2) \o W(HEADER_LINE_3) \o W(HEADER_LINE_4)

write_c_numeric_suffix_by_magnitude(n, size) ==
    IF n > WORD_MAX THEN W(DecSigned(n) \o LIT_L) ELSE W(DecSigned(n))

\* size is size_of_val of the numeric type, in bytes
write_c_numeric(n, size) ==
    IF size > 2 THEN W(DecSigned(n) \o LIT_L) ELSE W(DecSigned(n))

write_c_int(n) == write_c_numeric(n, 4)

write_dword(dword) == W(DecDigits(dword) \o LIT_L)

write_c_uchar(n) == write_c_numeric(n, 1)

write_c_long(n) == write_c_numeric(n, 4)

\* dword: Option<&DWORD>; unwrap aborts on None
write_mandatory_dword(dword) ==
    IF IsSome(dword) THEN write_dword(Unwrap(dword)) ELSE ExpectFailed

\* Rect is [x, y, width, height], four c_int
Rect_new(x, y, width, height) == [x |-> x, y |-> y, width |-> width, height |-> height]
Rect_default == Rect_new(0, 0, 0, 0)

write_rect(rect) ==
    write_c_int(rect.x) \o W(LIT_COMMA_SP) \o write_c_int(rect.y) \o W(LIT_COMMA_SP)
        \o write_c_int(rect.width) \o W(LIT_COMMA_SP) \o write_c_int(rect.height)

write_mandatory_rect(rect) ==
    IF IsSome(rect) THEN write_rect(Unwrap(rect)) ELSE write_rect(Rect_default)

need_escape_narrow_byte_without_del(v) == v \in 0..31 \/ v = 92 \/ v = 34

need_escape_narrow_byte(v) == v \in 0..31 \/ v = 92 \/ v = 34 \/ v = 127

need_escape_wide_u16_quote_verbatim(v) ==
    IF v \in 0..31 \/ v = 92 \/ v = 127 THEN TRUE
    ELSE IF v \in 32..126 THEN FALSE
    ELSE TRUE

need_escape_wide_u16(v) ==
    IF v \in 0..31 \/ v = 92 \/ v = 34 \/ v = 127 THEN TRUE
    ELSE IF v \in 32..126 THEN FALSE
    ELSE TRUE

\* rest_string.split(need_escape_narrow_byte).next(): the bytes before the
\* first byte that needs escaping
FirstSplit(s) ==
    LET esc == {i \in 1..Len(s) : need_escape_narrow_byte(s[i])}
    IN  IF esc = {} THEN s
        ELSE SubSeq(s, 1, (CHOOSE i \in esc : \A j \in esc : i <= j) - 1)

\* while !rest_string.is_empty() { .. }
RECURSIVE write_narrow_str_loop(_)
write_narrow_str_loop(rest_string) ==
    IF rest_string = <<>> THEN <<>>
    ELSE LET seq == FirstSplit(rest_string)
         IN  IF seq # <<>>
             THEN W(seq) \o write_narrow_str_loop(
                      SubSeq(rest_string, Len(seq) + 1, Len(rest_string)))
             ELSE W(LIT_BACKSLASH \o Octal3(rest_string[1]))
                      \o write_narrow_str_loop(Tail(rest_string))

write_narrow_str(string) ==
    W(LIT_QUOTE) \o write_narrow_str_loop(string) \o W(LIT_QUOTE)

write_mandatory_narrow_str(string) ==
    IF IsSome(string) THEN write_narrow_str(Unwrap(string)) ELSE write_narrow_str(<<>>)

\* Font is [typeface, size, weight, italic, charset]
write_font(font) ==
    write_c_int(font.size) \o W(LIT_COMMA_SP) \o write_narrow_str(font.typeface)
        \o W(LIT_COMMA_SP) \o write_c_long(font.weight)
        \o W(LIT_COMMA_SP) \o write_c_int(font.italic)
        \o W(LIT_COMMA_SP) \o write_c_uchar(font.charset)

\* for ch in name.encode_wide() { .. }
RECURSIVE write_wide_os_str_loop(_)
write_wide_os_str_loop(units) ==
    IF units = <<>> THEN <<>>
    ELSE LET ch == Head(units)
         IN  (IF ch = 92 THEN W(LIT_TWO_BACKSLASHES)
              ELSE IF ~need_escape_wide_u16(ch) THEN W(<<ch % 256>>)
              ELSE W(LIT_BACKSLASH_X \o Hex4(ch)))
                 \o write_wide_os_str_loop(Tail(units))

\* name is the sequence of 16-bit units of OsStr::encode_wide
write_wide_os_str(name) ==
    W(LIT_WIDE_OPEN) \o write_wide_os_str_loop(name) \o W(LIT_QUOTE)

write_os_str_prefer_narrow(name) ==
    IF \A i \in 1..Len(name) : name[i] <= 255 /\ name[i] < 128
    THEN write_narrow_str(name)
    ELSE write_wide_os_str(name)

write_path(path) == write_os_str_prefer_narrow(path)

\* IdOrName: tag "Id" with num, or tag "Name" with the name's bytes
IdOrName_Id(v) == [tag |-> "Id", num |-> v, name |-> <<>>]
IdOrName_Name(s) == [tag |-> "Name", num |-> 0, name |-> s]

\* id is the WORD an Id holds
write_id(id) == W(DecDigits(id))

write_id_or_name(id_or_name) ==
    IF id_or_name.tag = "Id" THEN W(Id_display(id_or_name.num))
    ELSE write_narrow_str(id_or_name.name)

\* the names "", " " and "_" and the identifiers 0 and 0xFFFF pass silently
ensure_id_or_name_ignorable(id_or_name) ==
    IF id_or_name.tag = "Id"
    THEN IF id_or_name.num = 0 \/ id_or_name.num = AsU16(0 - 1) THEN <<>>
         ELSE Eprintln(id_or_name)
    ELSE IF id_or_name.name \in {<<>>, <<32>>, <<95>>} THEN <<>>
         ELSE Eprintln(id_or_name)

\* extra_info: Option<ExtraInfo>, both fields Option<DWORD>
write_extra_info(extra_info) ==
    IF extra_info = None THEN <<>>
    ELSE LET ei == Unwrap(extra_info)
         IN  (IF IsSome(ei.characteristics)
              THEN W(LIT_SP) \o write_dword(Unwrap(ei.characteristics)) ELSE <<>>)
             \o
             (IF IsSome(ei.version)
              THEN W(LIT_SP) \o write_dword(Unwrap(ei.version)) ELSE <<>>)

\* newline, STYLE and a space
LIT_NL_STYLE == <<10, 83, 84, 89, 76, 69, 32>>
\* newline, EXSTYLE and a space
LIT_NL_EXSTYLE == <<10, 69, 88, 83, 84, 89, 76, 69, 32>>
\* space, EXSTYLE and a space
LIT_SP_EXSTYLE == <<32, 69, 88, 83, 84, 89, 76, 69, 32>>

\* style: WindowStyle, <<basic, extended>>, both Option<DWORD>
write_style_and_exstyle_statements(style) ==
    IF style[1] = None /\ style[2] = None THEN <<>>
    ELSE IF style[2] = None THEN W(LIT_NL_STYLE) \o write_dword(Unwrap(style[1]))
    ELSE IF style[1] = None THEN W(LIT_NL_EXSTYLE) \o write_dword(Unwrap(style[2]))
    ELSE W(LIT_NL_STYLE) \o write_dword(Unwrap(style[1]))
             \o W(LIT_SP_EXSTYLE) \o write_dword(Unwrap(style[2]))

write_resource_header_with_id_always(lang, id_or_name, res_type_keyword) ==
    W(LIT_LANGUAGE \o HexDigits(lang[1]) \o LIT_COMMA_0X \o HexDigits(lang[2])
          \o LIT_NL)
    \o write_id_or_name(id_or_name) \o W(LIT_SP)
    \o W(res_type_keyword \o LIT_SP)

write_resource_header(lang, id_or_name, res_type_keyword) ==
    W(LIT_LANGUAGE \o HexDigits(lang[1]) \o LIT_COMMA_0X \o HexDigits(lang[2])
          \o LIT_NL)
    \o (IF res_type_keyword = KW_STRINGTABLE
        THEN ensure_id_or_name_ignorable(id_or_name)
        ELSE IF res_type_keyword = KW_VERSIONINFO
        THEN (IF id_or_name # IdOrName_Id(1)
              THEN ensure_id_or_name_ignorable(id_or_name) ELSE <<>>)
                 \o W(LIT_ONE_SP)
        ELSE write_id_or_name(id_or_name) \o W(LIT_SP))
    \o W(res_type_keyword \o LIT_SP)

\* PathBuf::push of a path onto the working directory
PathPush(base, path) ==
    IF Len(path) >= 3 /\ path[2] = 58 /\ path[3] = 92 THEN path
    ELSE IF base # <<>> /\ base[Len(base)] = 92 THEN base \o path
    ELSE base \o <<92>> \o path

write_path_only_resource(lang, id_or_name, res_type_keyword, path, cwd) ==
    write_resource_header(lang, id_or_name, res_type_keyword)
        \o W(LIT_SP) \o write_path(PathPush(cwd, path)) \o W(LIT_NL)

(***************************************************************************)
(* mod menu (lib.rs:1042-1258).  A MenuItem is a record                    *)
(*   id: Option<Id>, text: OptionLangSpecific<str>, ty, state: UINT,       *)
(*   popup: Option<PopupData>                                              *)
(* and PopupData is [help_id: Option<c_int>, items: Vec<MenuItem>].        *)
(***************************************************************************)
MenuType_default == 0
MenuState_default == 0
MenuType_SEPARATOR == 2048
MenuState_CHECKED == 8

MenuData_default == <<>>
PopupData_default == [help_id |-> None, items |-> <<>>]

MenuItem(id, text, ty, state, popup) ==
    [id |-> id, text |-> text, ty |-> ty, state |-> state, popup |-> popup]

\* MenuBuilder::internal_add_item and PopupBuilder::internal_add_item
internal_add_item(items, id, text, ty, state, popup) ==
    Append(items, MenuItem(id, text, ty, state, popup))

PopupBuilder_help_id(popup, help_id) == [popup EXCEPT !.help_id = Some(help_id)]

\* MultiLangText (lib.rs:572-591)
MultiLangText_empty == OptionLangSpecific_default
MultiLangText_from_for_enu(str) == insert_lang_specific(MultiLangText_empty, LANG_ENU, str)
MultiLangText_from(str) == insert_universal(MultiLangText_empty, str)
MultiLangText_lang(text, lang, str) == insert_lang_specific(text, lang, str)

MenuData_is_missing_for_lang(items, lang) ==
    \A i \in 1..Len(items) : ~IsSome(get(items[i].text, lang))

write_tabs_none(indent) == <<>>

\* for _ in 0..indent { write!(w, "\t")?; }
write_tabs(indent) == Flatten([i \in 1..indent |-> W(LIT_TAB)])

write_menu_item_fields_comma_per_present(item) ==
    (IF IsSome(item.id) THEN W(LIT_COMMA_SP) \o W(Id_display(Unwrap(item.id)))
     ELSE <<>>)
    \o (IF item.ty # MenuType_default THEN W(LIT_COMMA_SP) \o write_dword(item.ty)
        ELSE <<>>)
    \o (IF item.state # MenuState_default
        THEN W(LIT_COMMA_SP) \o write_dword(item.state) ELSE <<>>)
    \o (IF IsSome(item.popup) /\ IsSome(Unwrap(item.popup).help_id)
        THEN W(LIT_COMMA_SP) \o write_c_int(Unwrap(Unwrap(item.popup).help_id))
        ELSE <<>>)

\* lib.rs:1202-1230: what follows the quoted text on an item's line
write_menu_item_fields(item) ==
    LET exist_id == IsSome(item.id)
        exist_ty == item.ty # MenuType_default
        exist_state == item.state # MenuState_default
        exist_help_id ==
            IF IsSome(item.popup) THEN IsSome(Unwrap(item.popup).help_id) ELSE FALSE
    IN  (IF exist_id \/ exist_ty \/ exist_state \/ exist_help_id
         THEN W(LIT_COMMA_SP) ELSE <<>>)
        \o (IF exist_id THEN W(Id_display(Unwrap(item.id))) ELSE <<>>)
        \o (IF exist_ty \/ exist_state \/ exist_help_id THEN W(LIT_COMMA_SP) ELSE <<>>)
        \o (IF exist_ty THEN write_dword(item.ty) ELSE <<>>)
        \o (IF exist_state \/ exist_help_id THEN W(LIT_COMMA_SP) ELSE <<>>)
        \o (IF exist_state THEN write_dword(item.state) ELSE <<>>)
        \o (IF exist_help_id THEN W(LIT_COMMA_SP) ELSE <<>>)
        \o (IF exist_help_id
            THEN write_c_int(Unwrap(Unwrap(item.popup).help_id)) ELSE <<>>)

RECURSIVE write_menu_item_resouce_segment(_, _, _)
RECURSIVE write_menu_items(_, _, _)

\* for item in items.iter() { write_menu_item_resouce_segment(w, lang, item, indent)?; }
write_menu_items(lang, items, indent) ==
    Flatten([i \in 1..Len(items) |->
                write_menu_item_resouce_segment(lang, items[i], indent)])

write_menu_item_blank_when_missing(lang, item, indent) ==
    LET text == IF IsSome(get(item.text, lang)) THEN Unwrap(get(item.text, lang))
                ELSE <<>>
        line == write_tabs(indent)
                    \o W((IF IsSome(item.popup) THEN LIT_POPUP ELSE LIT_MENUITEM)
                             \o LIT_SP)
                    \o write_narrow_str(text)
                    \o write_menu_item_fields(item)
                    \o W(LIT_NL)
    IN  IF IsSome(item.popup)
        THEN line \o write_tabs(indent) \o W(LIT_OPEN_BRACE_NL)
                 \o write_menu_items(lang, Unwrap(item.popup).items, indent + 1)
                 \o write_tabs(indent) \o W(LIT_CLOSE_BRACE_NL)
        ELSE line

write_menu_item_resouce_segment(lang, item, indent) ==
    IF ~IsSome(get(item.text, lang)) THEN <<>>
    ELSE LET text == Unwrap(get(item.text, lang))
             is_popup == IsSome(item.popup)
             kind == IF is_popup THEN LIT_POPUP ELSE LIT_MENUITEM
             line == write_tabs(indent)
                         \o W(kind \o LIT_SP)
                         \o write_narrow_str(text)
                         \o write_menu_item_fields(item)
                         \o W(LIT_NL)
         IN  IF is_popup
             THEN line \o write_tabs(indent) \o W(LIT_OPEN_BRACE_NL)
                      \o write_menu_items(lang, Unwrap(item.popup).items, indent + 1)
                      \o write_tabs(indent) \o W(LIT_CLOSE_BRACE_NL)
             ELSE line

MenuData_write_resource_header_extras(items, lang) == <<>>

MenuData_write_resource_segment(items, lang) ==
    W(LIT_OPEN_BRACE_NL) \o write_menu_items(lang, items, 1) \o W(LIT_CLOSE_BRACE_NL)

(***************************************************************************)
(* mod string_table (lib.rs:597-640).  StringTableData is an               *)
(* OptionLangSpecific of [extra_info, strings]; its renderer is the one    *)
(* unimplemented_resouce_data_write_segment! generates (lib.rs:422-438).   *)
(***************************************************************************)
StringTableItems_default == [extra_info |-> None, strings |-> <<>>]
StringTableData_default == OptionLangSpecific_default

access_universal_mut(m, dflt) == BTreeEntryOrDefault(m, None, dflt)

\* the map with the value under key k replaced (assignment through the
\* mutable reference an entry hands out)
BTreeUpdate(m, k, newval) ==
    [i \in 1..Len(m) |-> IF m[i].key = k THEN [m[i] EXCEPT !.val = newval] ELSE m[i]]

StringTableBuilder_string(data, id, string) ==
    LET m == access_universal_mut(data, StringTableItems_default)
        items == Unwrap(BTreeGet(m, None))
    IN  BTreeUpdate(m, None, [items EXCEPT !.strings = Append(@, <<id, string>>)])

Unimplemented_is_missing_for_lang(data, lang) == TRUE
Unimplemented_write_resource_header_extras(data, lang) == PanicEffect
Unimplemented_write_resource_segment(data, lang) == PanicEffect

access_lang_specific_mut(m, lang, dflt) == BTreeEntryOrDefault(m, Some(lang), dflt)

StringTableBuilder_lang_specific_string(data, lang, id, string) ==
    LET m == access_lang_specific_mut(data, lang, StringTableItems_default)
        items == Unwrap(BTreeGet(m, Some(lang)))
    IN  BTreeUpdate(m, Some(lang), [items EXCEPT !.strings = Append(@, <<id, string>>)])

(***************************************************************************)
(* builder_extra_info_methods! (lib.rs:309-342), for builders whose data   *)
(* is an OptionLangSpecific of items with an extra_info field; dflt is the *)
(* items type's Default.  An ExtraInfo is [characteristics, version].      *)
(***************************************************************************)
Builder_extra_info(data, dflt, characteristics, version) ==
    LET m == access_universal_mut(data, dflt)
        items == Unwrap(BTreeGet(m, None))
    IN  BTreeUpdate(m, None,
            [items EXCEPT !.extra_info = Some([characteristics |-> characteristics, version |-> version])])

Builder_lang_specific_extra_info(data, dflt, lang, characteristics, version) ==
    LET m == access_lang_specific_mut(data, lang, dflt)
        items == Unwrap(BTreeGet(m, Some(lang)))
    IN  BTreeUpdate(m, Some(lang),
            [items EXCEPT !.extra_info = Some([characteristics |-> characteristics, version |-> version])])

(***************************************************************************)
(* mod accelerators (lib.rs:642-1040).  An Event is [kind, key, modifier,  *)
(* noinvert]: kind "ASCII" or "VirtKey", key the u8 or c_int, modifier the *)
(* enum variant's name.  AcceleratorsData is an OptionLangSpecific of      *)
(* [extra_info, events].                                                   *)
(***************************************************************************)
Event_ascii_key_event(ascii_key, modifier) ==
    [kind |-> "ASCII", key |-> ascii_key, modifier |-> modifier, noinvert |-> FALSE]

Event_virt_key_event(virt_key, modifier) ==
    [kind |-> "VirtKey", key |-> virt_key, modifier |-> modifier, noinvert |-> FALSE]

Event_noinvert(event) == [event EXCEPT !.noinvert = TRUE]

\* Display of Modifier and of ASCIIModifier, whose variants are a subset
Modifier_display(modifier) ==
    CASE modifier = "None" -> <<>>
      [] modifier = "Ctrl" -> <<44, 32, 67, 79, 78, 84, 82, 79, 76>>
      [] modifier = "Alt" -> <<44, 32, 65, 76, 84>>
      [] modifier = "Shift" -> <<44, 32, 83, 72, 73, 70, 84>>
      [] modifier = "CtrlAlt" -> <<44, 32, 67, 79, 78, 84, 82, 79, 76, 44, 32, 65, 76, 84>>
      [] modifier = "CtrlShift" -> <<44, 32, 67, 79, 78, 84, 82, 79, 76, 44, 32, 83, 72, 73, 70, 84>>
      [] modifier = "AltShift" -> <<44, 32, 65, 76, 84, 44, 32, 83, 72, 73, 70, 84>>
      [] modifier = "CtrlAltShift" -> <<44, 32, 67, 79, 78, 84, 82, 79, 76, 44, 32, 65, 76, 84, 44, 32, 83, 72, 73, 70, 84>>

AcceleratorsItems_default == [extra_info |-> None, events |-> <<>>]
AcceleratorsData_default == OptionLangSpecific_default

AcceleratorsBuilder_event(data, id, event) ==
    LET m == access_universal_mut(data, AcceleratorsItems_default)
        items == Unwrap(BTreeGet(m, None))
    IN  BTreeUpdate(m, None, [items EXCEPT !.events = Append(@, <<id, event>>)])

AcceleratorsBuilder_lang_specific_event_into_universal(data, lang, id, event) ==
    AcceleratorsBuilder_event(data, id, event)

AcceleratorsBuilder_lang_specific_event(data, lang, id, event) ==
    LET m == access_lang_specific_mut(data, lang, AcceleratorsItems_default)
        items == Unwrap(BTreeGet(m, Some(lang)))
    IN  BTreeUpdate(m, Some(lang), [items EXCEPT !.events = Append(@, <<id, event>>)])

AcceleratorsData_is_missing_always_false(data, l) == FALSE

AcceleratorsData_is_missing_for_lang(data, l) == get(data, l) = None

AcceleratorsData_write_resource_header_extras(data, l) ==
    IF get(data, l) = None THEN ExpectFailed
    ELSE write_extra_info(Unwrap(get(data, l)).extra_info)

\* one turn of the loop over items.events; entry is <<id, event>>
write_event(entry) ==
    LET id == entry[1]
        event == entry[2]
        noinvert == IF event.noinvert THEN <<44, 32, 78, 79, 73, 78, 86, 69, 82, 84>> ELSE <<>>
    IN  W(<<9>> \o DecSigned(event.key) \o LIT_COMMA_SP \o Id_display(id)
              \o (IF event.kind = "ASCII" THEN <<44, 32, 65, 83, 67, 73, 73>> ELSE <<44, 32, 86, 73, 82, 84, 75, 69, 89>>)
              \o Modifier_display(event.modifier) \o noinvert \o <<10>>)

AcceleratorsData_write_resource_segment(data, l) ==
    IF get(data, l) = None THEN ExpectFailed
    ELSE LET events == Unwrap(get(data, l)).events
         IN  W(LIT_OPEN_BRACE_NL)
             \o Flatten([i \in 1..Len(events) |-> write_event(events[i])])
             \o W(LIT_CLOSE_BRACE_NL)

(***************************************************************************)
(* mod rc_inline (lib.rs:2155-2177) and mod version_info (2115-2153).      *)
(* RcInlineData is [extra_info, items], both OptionLangSpecific; its       *)
(* builder has the methods of builder_extra_info_methods2! (344-378) only. *)
(* VersionInfoBuilder has no method but build, so the data is always its   *)
(* Default.  Both renderers are the unimplemented ones.                    *)
(***************************************************************************)
RcInlineData_default ==
    [extra_info |-> OptionLangSpecific_default, items |-> OptionLangSpecific_default]

RcInlineBuilder_extra_info(data, characteristics, version) ==
    [data EXCEPT !.extra_info = insert_universal(@, [characteristics |-> characteristics, version |-> version])]

RcInlineBuilder_lang_specific_extra_info(data, lang, characteristics, version) ==
    [data EXCEPT !.extra_info =
        insert_lang_specific(@, lang, [characteristics |-> characteristics, version |-> version])]

VersionInfoData_default == [product_name |-> OptionLangSpecific_default]

(***************************************************************************)
(* mod dialog (lib.rs:1359-2112).  A WindowStyle is <<basic, extended>>,   *)
(* both Option<DWORD>.  A ControlTemplate is [name, use_text, use_size,    *)
(* use_keyword]; a Control is [template, text_or_image, rect, class,       *)
(* style]; text_or_image is None, Some([tag |-> "Id", id, str]) or         *)
(* Some([tag |-> "LangSpecificStr", id, str]).                              *)
(***************************************************************************)
WS_CAPTION == 12582912
WS_TABSTOP == 65536
WS_SYSMENU == 524288
WS_EX_CLIENTEDGE == 512

\* a | b on DWORD
RECURSIVE DwordOr(_, _)
DwordOr(a, b) ==
    IF a = 0 THEN b
    ELSE IF b = 0 THEN a
    ELSE 2 * DwordOr(a \div 2, b \div 2) + (IF a % 2 = 1 \/ b % 2 = 1 THEN 1 ELSE 0)

option_dword_bitor(a, b) ==
    IF IsSome(a) /\ IsSome(b) THEN Some(DwordOr(Unwrap(a), Unwrap(b)))
    ELSE IF IsSome(a) THEN a
    ELSE IF IsSome(b) THEN b
    ELSE None

WindowStyle_bitor(lhs, rhs) ==
    <<option_dword_bitor(lhs[1], rhs[1]), option_dword_bitor(lhs[2], rhs[2])>>

\* WindowStyle::default()
WindowStyle_default == <<None, None>>

Control_new(template) ==
    [template |-> Some(template), text_or_image |-> None, rect |-> None,
     class |-> None, style |-> None]

Template_LTEXT == [name |-> <<76, 84, 69, 88, 84>>, use_text |-> TRUE, use_size |-> TRUE, use_keyword |-> Some(<<83, 84, 65, 84, 73, 67>>)]
Template_ICON == [name |-> <<73, 67, 79, 78>>, use_text |-> TRUE, use_size |-> TRUE, use_keyword |-> Some(<<83, 84, 65, 84, 73, 67>>)]
Template_LISTBOX == [name |-> <<76, 73, 83, 84, 66, 79, 88>>, use_text |-> FALSE, use_size |-> TRUE, use_keyword |-> Some(<<76, 73, 83, 84, 66, 79, 88>>)]

\* text: MultiLangText
StaticControl_text(control, text) ==
    [control EXCEPT !.text_or_image = Some([tag |-> "LangSpecificStr", id |-> None, str |-> text])]

StaticControl_image_id(control, id) ==
    [control EXCEPT !.text_or_image = Some([tag |-> "Id", id |-> Some(id), str |-> <<>>])]

Control_rect(control, rect) == [control EXCEPT !.rect = Some(rect)]

\* *self.0.style.get_or_insert_with(Default::default) |= style
Control_style(control, style) ==
    [control EXCEPT !.style =
        Some(WindowStyle_bitor(IF IsSome(@) THEN Unwrap(@) ELSE WindowStyle_default, style))]

DialogData_default ==
    [rect |-> OptionLangSpecific_default, help_id |-> OptionLangSpecific_default,
     extra_info |-> OptionLangSpecific_default, caption |-> OptionLangSpecific_default,
     class |-> None, style |-> None, font |-> OptionLangSpecific_default,
     menu |-> None, controls |-> VecLangSpecific_default]

DialogBuilder_style_overwriting(d, style) == [d EXCEPT !.style = Some(style)]

DialogBuilder_style(d, style) ==
    [d EXCEPT !.style =
        Some(WindowStyle_bitor(IF IsSome(@) THEN Unwrap(@) ELSE WindowStyle_default, style))]

DialogBuilder_system_menu(d) == DialogBuilder_style(d, <<Some(WS_SYSMENU), None>>)

DialogBuilder_caption(d, caption_text) ==
    DialogBuilder_style([d EXCEPT !.caption = caption_text], <<Some(WS_CAPTION), None>>)

DialogBuilder_control(d, id, control) ==
    [d EXCEPT !.controls = push_universal(@, <<id, control>>)]

DialogBuilder_lang_specific_control_as_universal(d, lang, id, control) ==
    [d EXCEPT !.controls = push_universal(@, <<id, control>>)]

DialogBuilder_lang_specific_control(d, lang, id, control) ==
    [d EXCEPT !.controls = push_lang_specific(@, lang, <<id, control>>)]

DialogBuilder_rect(d, rect) == [d EXCEPT !.rect = insert_universal(@, rect)]

DialogData_is_missing_without_controls(d, l) == iter(d.controls, l) = <<>>

DialogData_is_missing_for_lang(d, l) == FALSE

DialogData_write_resource_header_extras_class_first(d, lang) ==
    LET rect == IF IsSome(get(d.rect, lang)) THEN Unwrap(get(d.rect, lang)) ELSE Rect_default
    IN  W(LIT_SP) \o write_rect(rect)
        \o (IF IsSome(get(d.help_id, lang))
            THEN W(LIT_COMMA_SP) \o write_c_int(Unwrap(get(d.help_id, lang))) ELSE <<>>)
        \o write_extra_info(get(d.extra_info, lang))
        \o (IF IsSome(d.class)
            THEN W(<<10, 67, 76, 65, 83, 83, 32>>) \o write_id_or_name(Unwrap(d.class)) ELSE <<>>)
        \o (IF IsSome(get(d.caption, lang))
            THEN W(<<10, 67, 65, 80, 84, 73, 79, 78, 32>>) \o write_narrow_str(Unwrap(get(d.caption, lang))) ELSE <<>>)
        \o (IF IsSome(get(d.font, lang))
            THEN W(<<10, 70, 79, 78, 84, 32>>) \o write_font(Unwrap(get(d.font, lang))) ELSE <<>>)
        \o (IF IsSome(d.menu)
            THEN W(<<10, 77, 69, 78, 85, 32>>) \o write_id_or_name(Unwrap(d.menu)) ELSE <<>>)
        \o (IF IsSome(d.style)
            THEN write_style_and_exstyle_statements(Unwrap(d.style)) ELSE <<>>)

DialogData_write_resource_header_extras(d, lang) ==
    LET rect == IF IsSome(get(d.rect, lang)) THEN Unwrap(get(d.rect, lang)) ELSE Rect_default
    IN  W(LIT_SP) \o write_rect(rect)
        \o (IF IsSome(get(d.help_id, lang))
            THEN W(LIT_COMMA_SP) \o write_c_int(Unwrap(get(d.help_id, lang))) ELSE <<>>)
        \o write_extra_info(get(d.extra_info, lang))
        \o (IF IsSome(get(d.caption, lang))
            THEN W(<<10, 67, 65, 80, 84, 73, 79, 78, 32>>) \o write_narrow_str(Unwrap(get(d.caption, lang))) ELSE <<>>)
        \o (IF IsSome(d.class)
            THEN W(<<10, 67, 76, 65, 83, 83, 32>>) \o write_id_or_name(Unwrap(d.class)) ELSE <<>>)
        \o (IF IsSome(get(d.font, lang))
            THEN W(<<10, 70, 79, 78, 84, 32>>) \o write_font(Unwrap(get(d.font, lang))) ELSE <<>>)
        \o (IF IsSome(d.menu)
            THEN W(<<10, 77, 69, 78, 85, 32>>) \o write_id_or_name(Unwrap(d.menu)) ELSE <<>>)
        \o (IF IsSome(d.style)
            THEN write_style_and_exstyle_statements(Unwrap(d.style)) ELSE <<>>)

write_control_comma_always(lang, entry) ==
    LET id == entry[1]
        control == entry[2]
        default_template ==
            [name |-> <<67, 79, 78, 84, 82, 79, 76>>,
             use_text |-> TRUE, use_size |-> TRUE, use_keyword |-> None]
        template == IF IsSome(control.template) THEN Unwrap(control.template) ELSE default_template
        toi == control.text_or_image
        style == IF IsSome(control.style) THEN Unwrap(control.style) ELSE WindowStyle_default
    IN  W(<<9>> \o template.name \o <<32>>)
        \o (IF template.use_text
            THEN (IF IsSome(toi) /\ Unwrap(toi).tag = "Id"
                  THEN write_id(IF IsSome(Unwrap(toi).id) THEN Unwrap(Unwrap(toi).id) ELSE WORD_MAX)
                  ELSE write_mandatory_narrow_str(
                           IF IsSome(toi) THEN get(Unwrap(toi).str, lang) ELSE None))
                 \o W(LIT_COMMA_SP)
            ELSE <<>>)
        \o write_id(id)
        \o (IF template.use_keyword = None
            THEN W(LIT_COMMA_SP) \o write_mandatory_narrow_str(control.class)
                     \o W(LIT_COMMA_SP) \o write_mandatory_dword(style[1])
            ELSE <<>>)
        \o W(LIT_COMMA_SP) \o write_mandatory_rect(control.rect)
        \o (IF IsSome(template.use_keyword)
            THEN W(LIT_COMMA_SP)
                 \o (IF IsSome(style[1]) THEN write_dword(Unwrap(style[1])) ELSE <<>>)
            ELSE <<>>)
        \o (IF IsSome(style[2]) THEN W(LIT_COMMA_SP) \o write_dword(Unwrap(style[2])) ELSE <<>>)
        \o W(LIT_NL)

\* one turn of the loop over self.controls.iter(lang); entry is <<id, control>>
write_control(lang, entry) ==
    LET id == entry[1]
        control == entry[2]
        default_template ==
            [name |-> <<67, 79, 78, 84, 82, 79, 76>>,
             use_text |-> TRUE, use_size |-> TRUE, use_keyword |-> None]
        template == IF IsSome(control.template) THEN Unwrap(control.template) ELSE default_template
        toi == control.text_or_image
        style == IF IsSome(control.style) THEN Unwrap(control.style) ELSE WindowStyle_default
    IN  W(<<9>> \o template.name \o <<32>>)
        \o (IF template.use_text
            THEN (IF IsSome(toi) /\ Unwrap(toi).tag = "Id"
                  THEN write_id(IF IsSome(Unwrap(toi).id) THEN Unwrap(Unwrap(toi).id) ELSE WORD_MAX)
                  ELSE write_mandatory_narrow_str(
                           IF IsSome(toi) THEN get(Unwrap(toi).str, lang) ELSE None))
                 \o W(LIT_COMMA_SP)
            ELSE <<>>)
        \o write_id(id)
        \o (IF template.use_keyword = None
            THEN W(LIT_COMMA_SP) \o write_mandatory_narrow_str(control.class)
                     \o W(LIT_COMMA_SP) \o write_mandatory_dword(style[1])
            ELSE <<>>)
        \o W(LIT_COMMA_SP) \o write_mandatory_rect(control.rect)
        \o (IF IsSome(template.use_keyword)
            THEN (IF IsSome(style[1]) \/ IsSome(style[2]) THEN W(LIT_COMMA_SP) ELSE <<>>)
                 \o (IF IsSome(style[1]) THEN write_dword(Unwrap(style[1])) ELSE <<>>)
            ELSE <<>>)
        \o (IF IsSome(style[2]) THEN W(LIT_COMMA_SP) \o write_dword(Unwrap(style[2])) ELSE <<>>)
        \o W(LIT_NL)

DialogData_write_resource_segment(d, lang) ==
    LET shown == iter(d.controls, lang)
    IN  W(LIT_OPEN_BRACE_NL)
        \o Flatten([i \in 1..Len(shown) |-> write_control(lang, shown[i])])
        \o W(LIT_CLOSE_BRACE_NL)

(***************************************************************************)
(* mod resource (lib.rs:222-498).  A resource is [kind, keyword, data];    *)
(* kind names the type the defining macro generates.                       *)
(***************************************************************************)
PathOnlyResource(keyword, path) ==
    [kind |-> "PathOnly", keyword |-> keyword, data |-> path]
Icon_from_file(path) == PathOnlyResource(KW_ICON, path)
StringTable_build(data) ==
    [kind |-> "StringTable", keyword |-> KW_STRINGTABLE, data |-> data]
Menu_build(data) == [kind |-> "Menu", keyword |-> KW_MENUEX, data |-> data]

Data_is_missing_for_lang(res, l) ==
    CASE res.kind = "Menu" -> MenuData_is_missing_for_lang(res.data, l)
      [] res.kind = "Accelerators" -> AcceleratorsData_is_missing_for_lang(res.data, l)
      [] res.kind = "Dialog" -> DialogData_is_missing_for_lang(res.data, l)
      [] OTHER -> Unimplemented_is_missing_for_lang(res.data, l)

Data_write_resource_header_extras(res, l) ==
    CASE res.kind = "Menu" -> MenuData_write_resource_header_extras(res.data, l)
      [] res.kind = "Accelerators" -> AcceleratorsData_write_resource_header_extras(res.data, l)
      [] res.kind = "Dialog" -> DialogData_write_resource_header_extras(res.data, l)
      [] OTHER -> Unimplemented_write_resource_header_extras(res.data, l)

Data_write_resource_segment(res, l) ==
    CASE res.kind = "Menu" -> MenuData_write_resource_segment(res.data, l)
      [] res.kind = "Accelerators" -> AcceleratorsData_write_resource_segment(res.data, l)
      [] res.kind = "Dialog" -> DialogData_write_resource_segment(res.data, l)
      [] OTHER -> Unimplemented_write_resource_segment(res.data, l)

\* define_builder_generated_resource!: impl Resource (lib.rs:279-295)
BuilderGenerated_write_script_segment(l, id_or_name, res) ==
    IF Data_is_missing_for_lang(res, l) THEN <<>>
    ELSE write_resource_header(l, id_or_name, res.keyword)
             \o Data_write_resource_header_extras(res, l)
             \o W(LIT_NL)
             \o Data_write_resource_segment(res, l)

\* define_builder_or_path_generated_resource! (lib.rs:403-420): UserDefined
\* wraps a UserDefinedData, [tag |-> "RcInline", data] or
\* [tag |-> "External", data]; the type has no keyword
UserDefined_build(data) == [kind |-> "UserDefined", keyword |-> <<>>, data |-> data]
UserDefined_from_file(path) ==
    [kind |-> "UserDefined", keyword |-> <<>>,
     data |-> [tag |-> "External", data |-> path]]

write_script_segment_skipping_user_defined(l, id_or_name, res, cwd) ==
    IF res.kind = "PathOnly"
    THEN write_path_only_resource(l, id_or_name, res.keyword, res.data, cwd)
    ELSE BuilderGenerated_write_script_segment(l, id_or_name, res)

\* Resource::write_script_segment, dispatched on the resource's type; cwd is
\* what std::env::current_dir returns.  UserDefined implements Resource
\* with an empty impl block, so it runs the trait's default body.
write_script_segment(l, id_or_name, res, cwd) ==
    IF res.kind = "PathOnly"
    THEN write_path_only_resource(l, id_or_name, res.keyword, res.data, cwd)
    ELSE IF res.kind = "UserDefined" THEN PanicEffect
    ELSE BuilderGenerated_write_script_segment(l, id_or_name, res)

(***************************************************************************)
(* Build (lib.rs:149-208, 2205-2218).  resources is a BTreeMap from Lang   *)
(* to the Vec of <<id_or_name, resource>> pairs; a resource is held by     *)
(* reference (Box / Rc), modelled as its index in ResourcePool.            *)
(***************************************************************************)
RECURSIVE Build_new_loop(_, _)
Build_new_loop(m, languages) ==
    IF languages = <<>> THEN m
    ELSE Build_new_loop(BTreeInsert(m, Head(languages), <<>>), Tail(languages))

Build_new(languages) == Build_new_loop(<<>>, languages)

Build_resource_first_language_only(rs, id_or_name, r) ==
    [i \in 1..Len(rs) |->
        IF i = 1 THEN [rs[i] EXCEPT !.val = Append(@, <<id_or_name, r>>)] ELSE rs[i]]

Build_resource(rs, id_or_name, r) ==
    [i \in 1..Len(rs) |-> [rs[i] EXCEPT !.val = Append(@, <<id_or_name, r>>)]]

Build_lang_specific_resource(rs, language, id_or_name, r) ==
    LET m == BTreeEntryOrDefault(rs, language, <<>>)
    IN  BTreeUpdate(m, language,
                    Append(Unwrap(BTreeGet(m, language)), <<id_or_name, r>>))

\* the resources a document of the model may hold
Text_A == <<65>>
Text_OK == <<79, 75>>
Text_Quoted == <<66, 34, 9>>
Path_a_ico == <<97, 46, 105, 99, 111>>

Menu_File ==
    internal_add_item(
        internal_add_item(MenuData_default, Some(5),
            MultiLangText_lang(MultiLangText_from(Text_A), LANG_CHS, Text_Quoted),
            MenuType_default, MenuState_default, None),
        None, MultiLangText_from(Text_OK), MenuType_default, MenuState_default,
        Some(PopupBuilder_help_id(
            [PopupData_default EXCEPT !.items =
                internal_add_item(<<>>, None, MultiLangText_from(<<>>),
                    MenuType_SEPARATOR, MenuState_default, None)],
            3)))

ResourcePool ==
    << Icon_from_file(Path_a_ico),
       StringTable_build(
           StringTableBuilder_string(StringTableData_default, 1, Text_OK)),
       Menu_build(Menu_File),
       Menu_build(MenuData_default),
       UserDefined_build([tag |-> "RcInline", data |-> RcInlineData_default]),
       UserDefined_from_file(Path_a_ico) >>

DeclChoices ==
    { <<IdOrName_Id(1), 1>>, <<IdOrName_Id(WORD_MAX), 2>>,
      <<IdOrName_Name(<<77>>), 3>>, <<IdOrName_Id(2), 4>> }

\* for (id_or_name, resource) in resource_list { resource.write_script_segment(..)?; }
generate_resource_list(lang, resource_list, cwd) ==
    Flatten([i \in 1..Len(resource_list) |->
                write_script_segment(lang, resource_list[i][1],
                                     ResourcePool[resource_list[i][2]], cwd)])

\* for (lang, resource_list) in self.resources { .. }
generate_languages(rs, cwd) ==
    Flatten([i \in 1..Len(rs) |-> generate_resource_list(rs[i].key, rs[i].val, cwd)])

\* what generate_rc_file writes to the file it created
generate_rc_file(rs, cwd) == write_header \o generate_languages(rs, cwd)

(***************************************************************************)
(* SpecOption: any sequence of insert_universal / insert_lang_specific     *)
(* calls on one container.                                                 *)
(***************************************************************************)
OptIdle == opt = OptionLangSpecific_default /\ optLog = <<>>
VecIdle == vec = VecLangSpecific_default /\ vecLog = <<>>
IdIdle == idIn = 0 /\ idOut = [st |-> "idle", id |-> 0]
MenuIdle == menu = MenuData_default /\ menuPhase = "idle" /\ menuOut = <<>>
ResIdle == builder = <<>> /\ resLog = <<>> /\ resPhase = "idle" /\ resOut = <<>>
CgIdle == cgIn = <<>> /\ cgOut = <<>>
BuildIdle ==
    /\ resources = <<>> /\ declared = {} /\ declLog = <<>>
    /\ phase = "idle" /\ out = NothingWritten /\ curDir = <<>>

OptInit == OptIdle /\ VecIdle /\ IdIdle /\ BuildIdle /\ MenuIdle /\ ResIdle /\ CgIdle

OptInsertUniversal ==
    /\ Len(optLog) < MaxOptOps
    /\ \E v \in Values :
        /\ opt' = insert_universal(opt, v)
        /\ optLog' = Append(optLog, [key |-> None, val |-> v])
    /\ UNCHANGED <<vec, vecLog, idIn, idOut>>
    /\ UNCHANGED <<resources, declared, declLog, phase, out, curDir, menu, menuPhase, menuOut>>
    /\ UNCHANGED <<builder, resLog, resPhase, resOut, cgIn, cgOut>>

OptInsertLangSpecific ==
    /\ Len(optLog) < MaxOptOps
    /\ \E lang \in Langs, v \in Values :
        /\ opt' = insert_lang_specific(opt, lang, v)
        /\ optLog' = Append(optLog, [key |-> Some(lang), val |-> v])
    /\ UNCHANGED <<vec, vecLog, idIn, idOut>>
    /\ UNCHANGED <<resources, declared, declLog, phase, out, curDir, menu, menuPhase, menuOut>>
    /\ UNCHANGED <<builder, resLog, resPhase, resOut, cgIn, cgOut>>

OptNext == OptInsertUniversal \/ OptInsertLangSpecific

SpecOption == OptInit /\ [][OptNext]_vars

(***************************************************************************)
(* SpecVec: any sequence of push_universal / push_lang_specific calls on   *)
(* one list container.                                                     *)
(***************************************************************************)
VecInit == OptIdle /\ VecIdle /\ IdIdle /\ BuildIdle /\ MenuIdle /\ ResIdle /\ CgIdle

VecPushUniversal ==
    /\ Len(vecLog) < MaxVecOps
    /\ \E x \in Values :
        /\ vec' = push_universal(vec, x)
        /\ vecLog' = Append(vecLog, [key |-> None, val |-> x])
    /\ UNCHANGED <<opt, optLog, idIn, idOut>>
    /\ UNCHANGED <<resources, declared, declLog, phase, out, curDir, menu, menuPhase, menuOut>>
    /\ UNCHANGED <<builder, resLog, resPhase, resOut, cgIn, cgOut>>

VecPushLangSpecific ==
    /\ Len(vecLog) < MaxVecOps
    /\ \E lang \in Langs, x \in Values :
        /\ vec' = push_lang_specific(vec, lang, x)
        /\ vecLog' = Append(vecLog, [key |-> Some(lang), val |-> x])
    /\ UNCHANGED <<opt, optLog, idIn, idOut>>
    /\ UNCHANGED <<resources, declared, declLog, phase, out, curDir, menu, menuPhase, menuOut>>
    /\ UNCHANGED <<builder, resLog, resPhase, resOut, cgIn, cgOut>>

VecNext == VecPushUniversal \/ VecPushLangSpecific

SpecVec == VecInit /\ [][VecNext]_vars

(***************************************************************************)
(* SpecId: Id::from applied to one signed integer.  The inputs are every   *)
(* value of the accepted range, IdProbe values beyond each end of it, and  *)
(* a few far values whose low 16 bits look like valid identifiers.         *)
(***************************************************************************)
IdInputs ==
    ((-1 - IdProbe)..(WORD_MAX + IdProbe))
        \cup {-WORD_MODULUS - 1, -WORD_MODULUS, 2 * WORD_MODULUS - 1,
              2 * WORD_MODULUS, 2147483647, -2147483647}

IdInit ==
    /\ OptIdle /\ VecIdle /\ BuildIdle /\ MenuIdle /\ ResIdle /\ CgIdle
    /\ idIn \in IdInputs
    /\ idOut = [st |-> "idle", id |-> 0]

IdFrom ==
    /\ idOut.st = "idle"
    /\ idOut' = Id_from_isize(idIn)
    /\ UNCHANGED <<opt, optLog, vec, vecLog, idIn>>
    /\ UNCHANGED <<resources, declared, declLog, phase, out, curDir, menu, menuPhase, menuOut>>
    /\ UNCHANGED <<builder, resLog, resPhase, resOut, cgIn, cgOut>>

IdNext == IdFrom

SpecId == IdInit /\ [][IdNext]_vars

(***************************************************************************)
(* SpecBuild: a document is created for some languages, resources are      *)
(* declared on it, and it is serialized (which consumes it).               *)
(***************************************************************************)
LanguageChoices ==
    { <<>>, <<LANG_ENU>>, <<LANG_ENU, LANG_CHS>>, <<LANG_CHS, LANG_ENU>>,
      <<LANG_CHS, LANG_CHT>>, <<LANG_ENU, LANG_CHT, LANG_ENU>> }

\* working directories: plain ASCII, and one with a non-ASCII unit
Cwds == { <<67, 58, 92, 119>>, <<67, 58, 92, 233>> }

SeqRange(s) == {s[i] : i \in 1..Len(s)}

BuildInit ==
    /\ OptIdle /\ VecIdle /\ IdIdle /\ MenuIdle /\ ResIdle /\ CgIdle
    /\ \E languages \in LanguageChoices :
        /\ resources = Build_new(languages)
        /\ declared = SeqRange(languages)
    /\ declLog = <<>>
    /\ phase = "building"
    /\ out = NothingWritten
    /\ curDir \in Cwds

BuildResource ==
    /\ phase = "building"
    /\ Len(declLog) < MaxDecls
    /\ \E d \in DeclChoices :
        /\ resources' = Build_resource(resources, d[1], d[2])
        /\ declLog' = Append(declLog, [lang |-> None, id |-> d[1], res |-> d[2]])
    /\ UNCHANGED <<declared, phase, out, curDir>>
    /\ UNCHANGED <<opt, optLog, vec, vecLog, idIn, idOut, menu, menuPhase, menuOut>>
    /\ UNCHANGED <<builder, resLog, resPhase, resOut, cgIn, cgOut>>

BuildLangSpecificResource ==
    /\ phase = "building"
    /\ Len(declLog) < MaxDecls
    /\ \E language \in Langs, d \in DeclChoices :
        /\ resources' = Build_lang_specific_resource(resources, language, d[1], d[2])
        /\ declLog' = Append(declLog,
                             [lang |-> Some(language), id |-> d[1], res |-> d[2]])
    /\ UNCHANGED <<declared, phase, out, curDir>>
    /\ UNCHANGED <<opt, optLog, vec, vecLog, idIn, idOut, menu, menuPhase, menuOut>>
    /\ UNCHANGED <<builder, resLog, resPhase, resOut, cgIn, cgOut>>

BuildGenerateRcFile ==
    /\ phase = "building"
    /\ phase' = "generated"
    /\ out' = Run(generate_rc_file(resources, curDir), None)
    /\ UNCHANGED <<resources, declared, declLog, curDir>>
    /\ UNCHANGED <<opt, optLog, vec, vecLog, idIn, idOut, menu, menuPhase, menuOut>>
    /\ UNCHANGED <<builder, resLog, resPhase, resOut, cgIn, cgOut>>

BuildNext == BuildResource \/ BuildLangSpecificResource \/ BuildGenerateRcFile

SpecBuild == BuildInit /\ [][BuildNext]_vars

(***************************************************************************)
(* SpecMenu: the item list of a menu is filled through internal_add_item   *)
(* (the one place every append operation of MenuBuilder goes through),     *)
(* with any MenuItem value, and the menu is rendered for every language.   *)
(***************************************************************************)
Text_B == <<66>>
Text_C == <<67, 92>>

TextChoices ==
    { MultiLangText_empty,
      MultiLangText_lang(MultiLangText_empty, LANG_ENU, Text_A),
      MultiLangText_from(Text_B),
      MultiLangText_lang(MultiLangText_from(Text_B), LANG_CHS, Text_C) }

Leaf(id, text) == MenuItem(Some(id), text, MenuType_default, MenuState_default, None)

\* a popup whose children are visible to different languages
Popup_Kids ==
    [ help_id |-> None,
      items |->
        << Leaf(8, MultiLangText_from(Text_B)),
           Leaf(9, MultiLangText_lang(MultiLangText_empty, LANG_ENU, Text_A)),
           MenuItem(None, MultiLangText_lang(MultiLangText_empty, LANG_CHS, Text_C),
                    MenuType_default, MenuState_default,
                    Some([help_id |-> None,
                          items |-> <<Leaf(10, MultiLangText_from(Text_A))>>])) >> ]

Popup_Help ==
    [help_id |-> Some(3), items |-> <<Leaf(11, MultiLangText_from(Text_A))>>]

ItemChoices ==
    { MenuItem(id, MultiLangText_from(Text_OK), ty, state, popup) :
        id \in {None, Some(5)},
        ty \in {MenuType_default, MenuType_SEPARATOR},
        state \in {MenuState_default, MenuState_CHECKED},
        popup \in {None, Some(Popup_Help)} }
    \cup
    { MenuItem(Some(6), text, MenuType_default, MenuState_default, popup) :
        text \in TextChoices, popup \in {None, Some(Popup_Kids)} }

MenuIds == { IdOrName_Id(7), IdOrName_Name(<<77>>) }

MenuInit ==
    /\ OptIdle /\ VecIdle /\ IdIdle /\ BuildIdle /\ ResIdle /\ CgIdle
    /\ menu = MenuData_default
    /\ menuPhase = "building"
    /\ menuOut = <<>>

MenuAddItem ==
    /\ menuPhase = "building"
    /\ Len(menu) < MaxMenuItems
    /\ \E item \in ItemChoices :
        menu' = internal_add_item(menu, item.id, item.text, item.ty, item.state,
                                  item.popup)
    /\ UNCHANGED <<menuPhase, menuOut>>
    /\ UNCHANGED <<opt, optLog, vec, vecLog, idIn, idOut>>
    /\ UNCHANGED <<resources, declared, declLog, phase, out, curDir>>
    /\ UNCHANGED <<builder, resLog, resPhase, resOut, cgIn, cgOut>>

\* Resource::write_script_segment of the built menu, once per language
MenuRender ==
    /\ menuPhase = "building"
    /\ menuPhase' = "rendered"
    /\ \E id_or_name \in MenuIds :
        menuOut' = [l \in Langs |->
                       Run(write_script_segment(l, id_or_name, Menu_build(menu),
                                                <<>>), None)]
    /\ UNCHANGED menu
    /\ UNCHANGED <<opt, optLog, vec, vecLog, idIn, idOut>>
    /\ UNCHANGED <<resources, declared, declLog, phase, out, curDir>>
    /\ UNCHANGED <<builder, resLog, resPhase, resOut, cgIn, cgOut>>

MenuNext == MenuAddItem \/ MenuRender

SpecMenu == MenuInit /\ [][MenuNext]_vars

(***************************************************************************)
(* SpecResource: one builder of a builder-generated resource type is       *)
(* driven through its public methods, then build() is called and the       *)
(* resource's write_script_segment is run for every language.  resLog      *)
(* records the calls made, in order.                                       *)
(***************************************************************************)
BuilderChoices ==
    { [kind |-> "StringTable", data |-> StringTableData_default],
      [kind |-> "Accelerators", data |-> AcceleratorsData_default],
      [kind |-> "Menu", data |-> MenuData_default],
      [kind |-> "Dialog", data |-> DialogData_default],
      [kind |-> "VersionInfo", data |-> VersionInfoData_default],
      [kind |-> "RcInline", data |-> RcInlineData_default] }

\* languages the language-specific methods are called with
ResLangs == {LANG_ENU, LANG_CHS}

StringChoices == { <<1, Text_A>>, <<2, Text_Quoted>> }

EventChoices ==
    { <<1, Event_ascii_key_event(65, "Ctrl")>>,
      <<2, Event_noinvert(Event_virt_key_event(112, "AltShift"))>> }

Rect_Small == Rect_new(0, 0, 10, 20)

ControlChoices ==
    { <<1, Control_rect(StaticControl_text(Control_new(Template_LTEXT),
                            MultiLangText_lang(MultiLangText_from(Text_A), LANG_CHS, Text_OK)),
                        Rect_Small)>>,
      <<2, Control_style(Control_new(Template_LISTBOX), <<Some(WS_TABSTOP), None>>)>>,
      <<3, StaticControl_image_id(Control_new(Template_ICON), 7)>> }

\* what the built resource is rendered as
RenderIds == { IdOrName_Id(5), IdOrName_Id(WORD_MAX) }

ResOthers ==
    <<opt, optLog, vec, vecLog, idIn, idOut, resources, declared, declLog, phase,
      out, curDir, menu, menuPhase, menuOut, cgIn, cgOut>>

ResInit ==
    /\ OptIdle /\ VecIdle /\ IdIdle /\ BuildIdle /\ MenuIdle /\ CgIdle
    /\ builder \in BuilderChoices
    /\ resLog = <<>>
    /\ resPhase = "building"
    /\ resOut = <<>>

ResCall(kind, op, lang, id, arg, data) ==
    /\ resPhase = "building"
    /\ builder.kind = kind
    /\ Len(resLog) < MaxResOps
    /\ builder' = [builder EXCEPT !.data = data]
    /\ resLog' = Append(resLog, [op |-> op, lang |-> lang, id |-> id, arg |-> arg])
    /\ UNCHANGED <<resPhase, resOut>>
    /\ UNCHANGED ResOthers

StringTableString ==
    \E c \in StringChoices :
        ResCall("StringTable", "string", None, c[1], c[2],
                StringTableBuilder_string(builder.data, c[1], c[2]))

StringTableLangSpecificString ==
    \E lang \in ResLangs, c \in StringChoices :
        ResCall("StringTable", "string", Some(lang), c[1], c[2],
                StringTableBuilder_lang_specific_string(builder.data, lang, c[1], c[2]))

StringTableExtraInfo ==
    ResCall("StringTable", "extra_info", None, 0, <<Some(1), None>>,
            Builder_extra_info(builder.data, StringTableItems_default, Some(1), None))

AcceleratorsEvent ==
    \E c \in EventChoices :
        ResCall("Accelerators", "event", None, c[1], c[2],
                AcceleratorsBuilder_event(builder.data, c[1], c[2]))

AcceleratorsLangSpecificEvent ==
    \E lang \in ResLangs, c \in EventChoices :
        ResCall("Accelerators", "event", Some(lang), c[1], c[2],
                AcceleratorsBuilder_lang_specific_event(builder.data, lang, c[1], c[2]))

AcceleratorsExtraInfo ==
    ResCall("Accelerators", "extra_info", None, 0, <<Some(1), None>>,
            Builder_extra_info(builder.data, AcceleratorsItems_default, Some(1), None))

AcceleratorsLangSpecificExtraInfo ==
    \E lang \in ResLangs :
        ResCall("Accelerators", "extra_info", Some(lang), 0, <<None, Some(2)>>,
                Builder_lang_specific_extra_info(builder.data, AcceleratorsItems_default,
                                                 lang, None, Some(2)))

\* MenuBuilder::item(id, text)
MenuBuilderItem ==
    \E text \in {MultiLangText_from(Text_A),
                 MultiLangText_lang(MultiLangText_from(Text_A), LANG_CHS, Text_OK)} :
        ResCall("Menu", "item", None, 5, text,
                internal_add_item(builder.data, Some(5), text, MenuType_default,
                                  MenuState_default, None))

\* MenuBuilder::separator()
MenuBuilderSeparator ==
    ResCall("Menu", "separator", None, 0, MultiLangText_from(<<>>),
            internal_add_item(builder.data, None, MultiLangText_from(<<>>),
                              MenuType_SEPARATOR, MenuState_default, None))

\* MenuBuilder::popup(text, popup_building), the closure adding nothing or
\* one item through PopupBuilder::item
MenuBuilderPopup ==
    \E text \in {MultiLangText_from(Text_OK),
                 MultiLangText_lang(MultiLangText_from(Text_OK), LANG_ENU, Text_A)},
       popup \in {PopupData_default,
                  [PopupData_default EXCEPT !.items =
                      internal_add_item(@, Some(6),
                          MultiLangText_lang(MultiLangText_from(Text_A), LANG_CHS, Text_OK),
                          MenuType_default, MenuState_default, None)]} :
        ResCall("Menu", "popup", None, 0, text,
                internal_add_item(builder.data, None, text, MenuType_default,
                                  MenuState_default, Some(popup)))

DialogControl ==
    \E c \in ControlChoices :
        ResCall("Dialog", "control", None, c[1], c[2],
                DialogBuilder_control(builder.data, c[1], c[2]))

DialogLangSpecificControl ==
    \E lang \in ResLangs, c \in ControlChoices :
        ResCall("Dialog", "control", Some(lang), c[1], c[2],
                DialogBuilder_lang_specific_control(builder.data, lang, c[1], c[2]))

DialogRect ==
    ResCall("Dialog", "rect", None, 0, Rect_Small,
            DialogBuilder_rect(builder.data, Rect_Small))

DialogCaption ==
    ResCall("Dialog", "caption", None, 0, MultiLangText_from(Text_OK),
            DialogBuilder_caption(builder.data, MultiLangText_from(Text_OK)))

RcInlineExtraInfo ==
    ResCall("RcInline", "extra_info", None, 0, <<Some(1), None>>,
            RcInlineBuilder_extra_info(builder.data, Some(1), None))

RcInlineLangSpecificExtraInfo ==
    \E lang \in ResLangs :
        ResCall("RcInline", "extra_info", Some(lang), 0, <<None, Some(2)>>,
                RcInlineBuilder_lang_specific_extra_info(builder.data, lang, None, Some(2)))

\* builder_build_method! (lib.rs:380-389): the resource type wraps the data;
\* its keyword is the one its define_builder_generated_resource! names
Builder_build(b) ==
    CASE b.kind = "StringTable" -> StringTable_build(b.data)
      [] b.kind = "Menu" -> Menu_build(b.data)
      [] b.kind = "Accelerators" ->
            [kind |-> "Accelerators", keyword |-> KW_ACCELERATORS, data |-> b.data]
      [] b.kind = "Dialog" ->
            [kind |-> "Dialog", keyword |-> KW_DIALOGEX, data |-> b.data]
      [] b.kind = "VersionInfo" ->
            [kind |-> "VersionInfo", keyword |-> KW_VERSIONINFO, data |-> b.data]
      [] b.kind = "RcInline" ->
            [kind |-> "RcInline", keyword |-> KW_RCDATA, data |-> b.data]

\* build(), then Resource::write_script_segment once per language
ResRender ==
    /\ resPhase = "building"
    /\ resPhase' = "rendered"
    /\ \E id_or_name \in RenderIds :
        resOut' = [id |-> id_or_name,
                   seg |-> [l \in Langs |->
                               Run(write_script_segment(l, id_or_name,
                                                        Builder_build(builder), <<>>),
                                   None)]]
    /\ UNCHANGED <<builder, resLog>>
    /\ UNCHANGED ResOthers

ResNext ==
    \/ StringTableString \/ StringTableLangSpecificString \/ StringTableExtraInfo
    \/ AcceleratorsEvent \/ AcceleratorsLangSpecificEvent
    \/ AcceleratorsExtraInfo \/ AcceleratorsLangSpecificExtraInfo
    \/ MenuBuilderItem \/ MenuBuilderSeparator \/ MenuBuilderPopup
    \/ DialogControl \/ DialogLangSpecificControl \/ DialogRect
    \/ DialogCaption
    \/ RcInlineExtraInfo \/ RcInlineLangSpecificExtraInfo
    \/ ResRender

SpecResource == ResInit /\ [][ResNext]_vars

(***************************************************************************)
(* SpecStyle: style(), caption() and system_menu() called in any order on  *)
(* one DialogBuilder.                                                      *)
(***************************************************************************)
\* WindowStyle constants and | combinations of them: the default,
\* OVERLAPPED (whose bits are 0), TAB_STOP, CLIENT_EDGE, CAPTION | CLIENT_EDGE
StyleChoices ==
    { WindowStyle_default, <<Some(0), None>>, <<Some(WS_TABSTOP), None>>,
      <<None, Some(WS_EX_CLIENTEDGE)>>,
      WindowStyle_bitor(<<Some(WS_CAPTION), None>>, <<None, Some(WS_EX_CLIENTEDGE)>>) }

StyleInit ==
    /\ OptIdle /\ VecIdle /\ IdIdle /\ BuildIdle /\ MenuIdle /\ CgIdle
    /\ builder = [kind |-> "Dialog", data |-> DialogData_default]
    /\ resLog = <<>>
    /\ resPhase = "building"
    /\ resOut = <<>>

DialogStyle ==
    \E style \in StyleChoices :
        ResCall("Dialog", "style", None, 0, style,
                DialogBuilder_style(builder.data, style))

DialogSystemMenu ==
    ResCall("Dialog", "system_menu", None, 0, <<>>,
            DialogBuilder_system_menu(builder.data))

StyleNext == DialogStyle \/ DialogCaption \/ DialogSystemMenu

SpecStyle == StyleInit /\ [][StyleNext]_vars

(***************************************************************************)
(* SpecCodegen: the string and number writers of mod codegen, each applied *)
(* once to an input drawn from a bounded set.  cgIn is the call made,      *)
(* cgOut what it left in the output.                                       *)
(***************************************************************************)
\* all sequences over the elements of alphabet, of length 0..n
RECURSIVE SeqsUpTo(_, _)
SeqsUpTo(alphabet, n) ==
    IF n = 0 THEN {<<>>}
    ELSE LET shorter == SeqsUpTo(alphabet, n - 1)
         IN  shorter \cup {Append(s, a) : s \in shorter, a \in alphabet}

\* UTF-8 encoded characters a CowStr is made of: controls, space, the quote,
\* a digit, a letter, the backslash, tilde, DEL and a two-byte character
Utf8Chars ==
    { <<0>>, <<9>>, <<31>>, <<32>>, <<34>>, <<48>>, <<65>>, <<92>>, <<126>>, <<127>>,
      <<195, 169>> }

NarrowInputs == {Flatten(cs) : cs \in SeqsUpTo(Utf8Chars, MaxChars)}

\* 16-bit units OsStr::encode_wide can yield
WideUnits == {0, 31, 32, 34, 47, 65, 92, 126, 127, 128, 233, 255, 256, 20013, 65535}

WideInputs == SeqsUpTo(WideUnits, MaxChars)

\* <<writer, value>>: values at the ends of each type's range, as far as
\* 32-bit model integers reach
NumericInputs ==
    ({"write_c_uchar"} \X {0, 9, 255})
    \cup ({"write_c_int", "write_c_long"} \X {0 - 2147483647, 0 - 1, 0, 7, 65535, 65536, 2147483647})
    \cup ({"write_dword", "write_mandatory_dword"} \X {0, 7, 65535, 65536, 2147483647})
    \cup ({"write_id"} \X {0, 1, 32767, 32768, 65535})

CgOthers ==
    <<opt, optLog, vec, vecLog, idIn, idOut, resources, declared, declLog, phase,
      out, curDir, menu, menuPhase, menuOut, builder, resLog, resPhase, resOut>>

CgInit ==
    /\ OptIdle /\ VecIdle /\ IdIdle /\ BuildIdle /\ MenuIdle /\ ResIdle
    /\ cgIn = [fn |-> "none", arg |-> <<>>]
    /\ cgOut = NothingWritten

CgWriteNarrowStr ==
    /\ cgIn.fn = "none"
    /\ \E string \in NarrowInputs :
        /\ cgIn' = [fn |-> "write_narrow_str", arg |-> string]
        /\ cgOut' = Run(write_narrow_str(string), None)
    /\ UNCHANGED CgOthers

CgWriteWideOsStr ==
    /\ cgIn.fn = "none"
    /\ \E name \in WideInputs :
        /\ cgIn' = [fn |-> "write_wide_os_str", arg |-> name]
        /\ cgOut' = Run(write_wide_os_str(name), None)
    /\ UNCHANGED CgOthers

CgWriteOsStrPreferNarrow ==
    /\ cgIn.fn = "none"
    /\ \E name \in WideInputs :
        /\ cgIn' = [fn |-> "write_os_str_prefer_narrow", arg |-> name]
        /\ cgOut' = Run(write_os_str_prefer_narrow(name), None)
    /\ UNCHANGED CgOthers

CgWriteNumeric ==
    /\ cgIn.fn = "none"
    /\ \E c \in NumericInputs :
        /\ cgIn' = [fn |-> c[1], arg |-> c[2]]
        /\ cgOut' = Run(CASE c[1] = "write_c_uchar" -> write_c_uchar(c[2])
                          [] c[1] = "write_c_int" -> write_c_int(c[2])
                          [] c[1] = "write_c_long" -> write_c_long(c[2])
                          [] c[1] = "write_dword" -> write_dword(c[2])
                          [] c[1] = "write_mandatory_dword" ->
                                 write_mandatory_dword(Some(c[2]))
                          [] c[1] = "write_id" -> write_id(c[2]),
                        None)
    /\ UNCHANGED CgOthers

\* <<lang, id_or_name, res_type_keyword>>: the languages of the crate and one
\* with every bit of both fields set, identifiers on and off the ignorable
\* list, a name, and the keyword of every resource type
HeaderInputs ==
    (Langs \cup {<<1023, 63>>})
    \X {IdOrName_Id(0), IdOrName_Id(1), IdOrName_Id(5), IdOrName_Id(WORD_MAX),
        IdOrName_Name(<<>>), IdOrName_Name(<<77, 34>>)}
    \X {KW_ICON, KW_STRINGTABLE, KW_ACCELERATORS, KW_MENUEX, KW_DIALOGEX,
        KW_VERSIONINFO, KW_RCDATA}

CgWriteResourceHeader ==
    /\ cgIn.fn = "none"
    /\ \E c \in HeaderInputs :
        /\ cgIn' = [fn |-> "write_resource_header",
                    arg |-> [lang |-> c[1], id_or_name |-> c[2], keyword |-> c[3]]]
        /\ cgOut' = Run(write_resource_header(c[1], c[2], c[3]), None)
    /\ UNCHANGED CgOthers

\* an OptionLangSpecific with nothing, a universal value, a universal value
\* overridden for LANG_CHS, or a value for LANG_CHS alone
LangSpecificChoices(u, s) ==
    { OptionLangSpecific_default,
      insert_universal(OptionLangSpecific_default, u),
      insert_lang_specific(insert_universal(OptionLangSpecific_default, u), LANG_CHS, s),
      insert_lang_specific(OptionLangSpecific_default, LANG_CHS, s) }

Font_Small == [typeface |-> Text_A, size |-> 8, weight |-> 400, italic |-> 0, charset |-> 1]
Font_Large == [typeface |-> Text_OK, size |-> 12, weight |-> 700, italic |-> 1, charset |-> 134]

\* every field of DialogData absent and present, the language-resolved ones
\* also overridden; controls play no part in the header
DialogDataInputs ==
    { [rect |-> r, help_id |-> h, extra_info |-> e, caption |-> c, class |-> k,
       style |-> s, font |-> f, menu |-> m, controls |-> VecLangSpecific_default] :
        r \in LangSpecificChoices(Rect_Small, Rect_new(1, 2, 30, 40)),
        h \in LangSpecificChoices(3, 4) \ {insert_lang_specific(OptionLangSpecific_default, LANG_CHS, 4)},
        e \in { OptionLangSpecific_default,
                insert_universal(OptionLangSpecific_default,
                    [characteristics |-> Some(1), version |-> Some(2)]),
                insert_lang_specific(OptionLangSpecific_default, LANG_CHS,
                    [characteristics |-> None, version |-> Some(6)]) },
        c \in { MultiLangText_empty, MultiLangText_from(Text_A),
                MultiLangText_lang(MultiLangText_from(Text_A), LANG_CHS, Text_Quoted) },
        k \in { None, Some(IdOrName_Name(Text_OK)) },
        s \in { None, Some(WindowStyle_default), Some(<<Some(WS_CAPTION), None>>),
                Some(<<None, Some(WS_EX_CLIENTEDGE)>>),
                Some(<<Some(WS_TABSTOP), Some(WS_EX_CLIENTEDGE)>>) },
        f \in { OptionLangSpecific_default,
                insert_universal(OptionLangSpecific_default, Font_Small),
                insert_lang_specific(insert_universal(OptionLangSpecific_default, Font_Small),
                                     LANG_CHS, Font_Large) },
        m \in { None, Some(IdOrName_Id(9)) } }

CgDialogHeaderExtras ==
    /\ cgIn.fn = "none"
    /\ \E d \in DialogDataInputs, lang \in ResLangs :
        /\ cgIn' = [fn |-> "DialogData::write_resource_header_extras",
                    arg |-> [data |-> d, lang |-> lang]]
        /\ cgOut' = Run(DialogData_write_resource_header_extras(d, lang), None)
    /\ UNCHANGED CgOthers

\* controls as the builders make them: a template of the crate, with and
\* without a rectangle, with no style call, an empty style, a basic style, an
\* extended style and both
ControlInputs ==
    { IF s = None THEN c ELSE Control_style(c, Unwrap(s)) :
        c \in { StaticControl_text(Control_new(Template_LTEXT), MultiLangText_from(Text_A)),
                Control_rect(StaticControl_text(Control_new(Template_LTEXT),
                                                MultiLangText_from(Text_A)), Rect_Small),
                Control_new(Template_LISTBOX),
                Control_rect(Control_new(Template_LISTBOX), Rect_new(1, 2, 30, 40)),
                Control_rect(StaticControl_image_id(Control_new(Template_ICON), 7), Rect_Small) },
        s \in { None, Some(WindowStyle_default), Some(<<Some(WS_TABSTOP), None>>),
                Some(<<None, Some(WS_EX_CLIENTEDGE)>>),
                Some(<<Some(WS_CAPTION), Some(WS_EX_CLIENTEDGE)>>) } }

CgWriteControl ==
    /\ cgIn.fn = "none"
    /\ \E control \in ControlInputs, id \in {1, WORD_MAX}, lang \in ResLangs :
        /\ cgIn' = [fn |-> "write_control",
                    arg |-> [id |-> id, control |-> control, lang |-> lang]]
        /\ cgOut' = Run(write_control(lang, <<id, control>>), None)
    /\ UNCHANGED CgOthers

CgNext ==
    \/ CgWriteNarrowStr \/ CgWriteWideOsStr \/ CgWriteOsStrPreferNarrow
    \/ CgWriteNumeric \/ CgWriteResourceHeader
    \/ CgDialogHeaderExtras \/ CgWriteControl

SpecCodegen == CgInit /\ [][CgNext]_vars

(***************************************************************************)
(* SpecNarrowLoop: write_narrow_str (lib.rs:2345-2360) one statement at a  *)
(* time, on a writer that accepts every write.  cgIn holds the argument,   *)
(* the position in the function and rest_string; cgOut.buf what has been   *)
(* written.  The function runs to its end without waiting on anything, so  *)
(* a step that can be taken is taken.                                      *)
(***************************************************************************)
NarrowLoopInit ==
    /\ OptIdle /\ VecIdle /\ IdIdle /\ BuildIdle /\ MenuIdle /\ ResIdle
    /\ \E string \in NarrowInputs :
        cgIn = [fn |-> "write_narrow_str", arg |-> string, pc |-> "entry",
                rest_string |-> <<>>]
    /\ cgOut = NothingWritten

\* write!(w, "\"")?; let mut rest_string = string.as_bytes();
NarrowLoopEnter ==
    /\ cgIn.pc = "entry"
    /\ cgIn' = [cgIn EXCEPT !.pc = "while", !.rest_string = cgIn.arg]
    /\ cgOut' = [cgOut EXCEPT !.buf = @ \o LIT_QUOTE]
    /\ UNCHANGED CgOthers

NarrowLoopWriteSeq_one_byte ==
    /\ cgIn.pc = "while"
    /\ cgIn.rest_string # <<>>
    /\ FirstSplit(cgIn.rest_string) # <<>>
    /\ cgOut' = [cgOut EXCEPT !.buf = @ \o <<cgIn.rest_string[1]>>]
    /\ cgIn' = [cgIn EXCEPT !.rest_string = Tail(@)]
    /\ UNCHANGED CgOthers

\* the loop body when seq is not empty
NarrowLoopWriteSeq ==
    /\ cgIn.pc = "while"
    /\ cgIn.rest_string # <<>>
    /\ LET seq == FirstSplit(cgIn.rest_string)
       IN  /\ seq # <<>>
           /\ cgOut' = [cgOut EXCEPT !.buf = @ \o seq]
           /\ cgIn' = [cgIn EXCEPT !.rest_string = SubSeq(@, Len(seq) + 1, Len(@))]
    /\ UNCHANGED CgOthers

\* the loop body when seq is empty
NarrowLoopWriteEscape ==
    /\ cgIn.pc = "while"
    /\ cgIn.rest_string # <<>>
    /\ FirstSplit(cgIn.rest_string) = <<>>
    /\ cgOut' = [cgOut EXCEPT !.buf = @ \o LIT_BACKSLASH \o Octal3(cgIn.rest_string[1])]
    /\ cgIn' = [cgIn EXCEPT !.rest_string = Tail(@)]
    /\ UNCHANGED CgOthers

\* the loop condition fails: write!(w, "\"")?; Ok(())
NarrowLoopLeave ==
    /\ cgIn.pc = "while"
    /\ cgIn.rest_string = <<>>
    /\ cgIn' = [cgIn EXCEPT !.pc = "returned"]
    /\ cgOut' = [cgOut EXCEPT !.buf = @ \o LIT_QUOTE]
    /\ UNCHANGED CgOthers

NarrowLoopNext ==
    NarrowLoopEnter \/ NarrowLoopWriteSeq \/ NarrowLoopWriteEscape \/ NarrowLoopLeave

SpecNarrowLoop ==
    NarrowLoopInit /\ [][NarrowLoopNext]_vars /\ WF_vars(NarrowLoopNext)

(***************************************************************************)
(* SpecIo: a document for two languages is filled like in SpecBuild and    *)
(* generate_rc_file writes it to a file that fails: a budget of Some(n)    *)
(* lets the first n write calls succeed and makes the next one return an   *)
(* error without having written anything.                                  *)
(***************************************************************************)
IoInit ==
    /\ OptIdle /\ VecIdle /\ IdIdle /\ MenuIdle /\ ResIdle /\ CgIdle
    /\ resources = Build_new(<<LANG_ENU, LANG_CHS>>)
    /\ declared = {LANG_ENU, LANG_CHS}
    /\ declLog = <<>>
    /\ phase = "building"
    /\ out = NothingWritten
    /\ curDir = <<67, 58, 92, 119>>

IoGenerateRcFile ==
    /\ phase = "building"
    /\ phase' = "generated"
    /\ \E n \in 0..MaxFailAt :
        out' = Run(generate_rc_file(resources, curDir), Some(n))
    /\ UNCHANGED <<resources, declared, declLog, curDir>>
    /\ UNCHANGED <<opt, optLog, vec, vecLog, idIn, idOut, menu, menuPhase, menuOut>>
    /\ UNCHANGED <<builder, resLog, resPhase, resOut, cgIn, cgOut>>

IoNext == BuildResource \/ BuildLangSpecificResource \/ IoGenerateRcFile

SpecIo == IoInit /\ [][IoNext]_vars

(***************************************************************************)
(* SpecUserDefined: a document for two languages on which icons, menus and *)
(* UserDefined resources are declared, serialized to a file that accepts   *)
(* every write.                                                            *)
(***************************************************************************)
UserDefinedChoices ==
    { <<IdOrName_Id(1), 1>>, <<IdOrName_Name(<<77>>), 3>>,
      <<IdOrName_Id(3), 5>>, <<IdOrName_Id(4), 6>> }

UserDefinedResource ==
    /\ phase = "building"
    /\ Len(declLog) < MaxDecls
    /\ \E d \in UserDefinedChoices :
        /\ resources' = Build_resource(resources, d[1], d[2])
        /\ declLog' = Append(declLog, [lang |-> None, id |-> d[1], res |-> d[2]])
    /\ UNCHANGED <<declared, phase, out, curDir>>
    /\ UNCHANGED <<opt, optLog, vec, vecLog, idIn, idOut, menu, menuPhase, menuOut>>
    /\ UNCHANGED <<builder, resLog, resPhase, resOut, cgIn, cgOut>>

UserDefinedLangSpecificResource ==
    /\ phase = "building"
    /\ Len(declLog) < MaxDecls
    /\ \E language \in Langs, d \in UserDefinedChoices :
        /\ resources' = Build_lang_specific_resource(resources, language, d[1], d[2])
        /\ declLog' = Append(declLog,
                             [lang |-> Some(language), id |-> d[1], res |-> d[2]])
    /\ UNCHANGED <<declared, phase, out, curDir>>
    /\ UNCHANGED <<opt, optLog, vec, vecLog, idIn, idOut, menu, menuPhase, menuOut>>
    /\ UNCHANGED <<builder, resLog, resPhase, resOut, cgIn, cgOut>>

UserDefinedNext ==
    UserDefinedResource \/ UserDefinedLangSpecificResource \/ BuildGenerateRcFile

SpecUserDefined == IoInit /\ [][UserDefinedNext]_vars

Spec == SpecBuild

(***************************************************************************)
(* Claims                                                                  *)
(***************************************************************************)

\* the value of the most recent entry of a call history for key k, if any
LastLogged(log, k) ==
    LET hits == {i \in 1..Len(log) : log[i].key = k}
    IN  IF hits = {} THEN None
        ELSE Some(log[CHOOSE i \in hits : \A j \in hits : j <= i].val)

\* C1: get(L) is the entry keyed by L if one was inserted, otherwise the
\* universal entry if one was inserted, otherwise absent; and a container
\* holding only a universal entry answers every language alike.
C1_GetOverrideRule ==
    /\ \A L \in Langs :
        get(opt, L) =
            IF IsSome(LastLogged(optLog, Some(L))) THEN LastLogged(optLog, Some(L))
            ELSE LastLogged(optLog, None)
    /\ BTreeKeys(opt) = {None} =>
        \A L1, L2 \in Langs : get(opt, L1) = get(opt, L2) /\ IsSome(get(opt, L1))

C1_Witness ==
    /\ BTreeKeys(opt) = {None, Some(LANG_ENU)}
    /\ get(opt, LANG_ENU) = Some(2)
    /\ get(opt, LANG_CHS) = Some(1)
    /\ get(opt, LANG_CHT) = Some(1)

\* the k-th smallest member of a finite set of integers
KthOf(S, k) == CHOOSE i \in S : Cardinality({j \in S : j <= i}) = k

\* the values of a push history that are visible to language L, in call order
VisibleTo(log, L) ==
    LET idx == {i \in 1..Len(log) : log[i].key \in {None, Some(L)}}
    IN  [k \in 1..Cardinality(idx) |-> log[KthOf(idx, k)].val]

\* C2: iter(L) yields exactly the values pushed universally or for L, in the
\* order of the calls, and no value pushed for another language.
C2_IterStableMerge ==
    \A L \in Langs : iter(vec, L) = VisibleTo(vecLog, L)

C2_Witness ==
    /\ Len(vec) = 4
    /\ vec[1][1] = Some(LANG_CHS) /\ vec[2][1] = None
    /\ vec[3][1] = Some(LANG_ENU) /\ vec[4][1] = None
    /\ iter(vec, LANG_CHS) = <<2, 1, 2>>
    /\ iter(vec, LANG_ENU) = <<1, 1, 2>>
    /\ iter(vec, LANG_CHT) = <<1, 2>>

\* C3: there is at most one entry per key, it holds the value of the most
\* recent insertion for that key (so insertions under other keys never
\* change it), and both mutators are defined for every argument.
C3_OneEntryPerKeyLastWins ==
    /\ \A i, j \in 1..Len(opt) : opt[i].key = opt[j].key => i = j
    /\ \A k \in {None} \cup {Some(L) : L \in Langs} :
        BTreeGet(opt, k) = LastLogged(optLog, k)
    /\ \A v \in Values :
        /\ BTreeGet(insert_universal(opt, v), None) = Some(v)
        /\ \A L \in Langs :
            BTreeGet(insert_lang_specific(opt, L, v), Some(L)) = Some(v)

C3_Witness ==
    /\ Len(optLog) = 4
    /\ optLog[1] = [key |-> Some(LANG_ENU), val |-> 1]
    /\ optLog[2] = [key |-> None, val |-> 1]
    /\ optLog[3] = [key |-> Some(LANG_ENU), val |-> 2]
    /\ optLog[4] = [key |-> None, val |-> 2]
    /\ opt = <<[key |-> None, val |-> 2], [key |-> Some(LANG_ENU), val |-> 2]>>

\* C4 as stated: every v in [-1, 0xFFFF] converts and the stored identifier
\* reads back as v; every other v fails.
C4_RoundTripsAsStated ==
    idOut.st # "idle" =>
        IF -1 <= idIn /\ idIn <= WORD_MAX
        THEN idOut.st = "ok" /\ idOut.id = idIn
        ELSE idOut.st = "panic"

\* C4 amended: every v < -1 and every v > 0xFFFF fails explicitly; every v
\* in [0, 0xFFFF] converts and reads back as v; v = -1 converts to the
\* reserved identifier 0xFFFF, which reads back as 65535.
C4_ConversionRange ==
    idOut.st # "idle" =>
        /\ (idIn < -1 \/ idIn > WORD_MAX) => idOut.st = "panic"
        /\ (0 <= idIn /\ idIn <= WORD_MAX) => idOut.st = "ok" /\ idOut.id = idIn
        /\ idIn = -1 =>
            /\ idOut.st = "ok" /\ idOut.id = WORD_MAX
            /\ Id_display(idOut.id) = <<54, 53, 53, 51, 53>>

C4_Witness == idIn = -1 /\ idOut.st = "ok" /\ idOut.id = WORD_MAX

(***************************************************************************)
(* Reading a script back: occurrences of a byte pattern, lines.            *)
(***************************************************************************)
\* the positions at which pat occurs in s
Occurrences(s, pat) ==
    {i \in 1..(Len(s) - Len(pat) + 1) : SubSeq(s, i, i + Len(pat) - 1) = pat}

StartsWith(s, p) == Len(s) >= Len(p) /\ SubSeq(s, 1, Len(p)) = p

\* the newline-terminated lines of s, without their newlines
SplitLines(s) ==
    LET nl == {i \in 1..Len(s) : s[i] = 10}
    IN  [k \in 1..Cardinality(nl) |->
            SubSeq(s, IF k = 1 THEN 1 ELSE KthOf(nl, k - 1) + 1, KthOf(nl, k) - 1)]

\* a line without its leading tabs
StripTabs(ln) ==
    LET body == {i \in 1..Len(ln) : ln[i] # 9}
    IN  IF body = {} THEN <<>>
        ELSE SubSeq(ln, CHOOSE i \in body : \A j \in body : i <= j, Len(ln))

IsItemLine(ln) ==
    \/ StartsWith(StripTabs(ln), LIT_MENUITEM \o LIT_SP)
    \/ StartsWith(StripTabs(ln), LIT_POPUP \o LIT_SP)

\* the MENUITEM / POPUP lines of a script, in order, without indentation
ItemLines(buf) ==
    LET lines == SelectSeq(SplitLines(buf), IsItemLine)
    IN  [k \in 1..Len(lines) |-> StripTabs(lines[k])]

\* the list a document holds for language L (empty when L is not a key)
ListOf(rs, L) ==
    LET hits == {i \in 1..Len(rs) : rs[i].key = L}
    IN  IF hits = {} THEN <<>> ELSE rs[CHOOSE i \in hits : TRUE].val

\* C5: after any sequence of resource() and lang_specific_resource() calls
\* the language keys of the document are exactly the languages given at its
\* creation.
C5_LanguageKeysFixed == BTreeKeys(resources) = declared

\* C6: a universal declaration appends its pair to the end of the list of
\* every declared language (and of every other key the document holds); a
\* language-specific declaration appends its pair to the end of that
\* language's list and leaves every other language's list as it was; no
\* existing pair is moved or removed.
C6_DeclarationsAppend ==
    [][ declLog' # declLog =>
          LET d == declLog'[Len(declLog')]
              pair == <<d.id, d.res>>
          IN  IF d.lang = None
              THEN /\ BTreeKeys(resources') = BTreeKeys(resources)
                   /\ \A L \in declared \cup BTreeKeys(resources) :
                        ListOf(resources', L) = Append(ListOf(resources, L), pair)
              ELSE /\ ListOf(resources', Unwrap(d.lang))
                        = Append(ListOf(resources, Unwrap(d.lang)), pair)
                   /\ \A L \in Langs \ {Unwrap(d.lang)} :
                        /\ ListOf(resources', L) = ListOf(resources, L)
                        /\ (L \in BTreeKeys(resources')) = (L \in BTreeKeys(resources))
      ]_vars

C6_Witness ==
    /\ declared = {LANG_ENU, LANG_CHS}
    /\ Len(declLog) = 2
    /\ declLog[1].lang = None /\ declLog[2].lang = Some(LANG_CHS)
    /\ ListOf(resources, LANG_ENU) = <<<<declLog[1].id, declLog[1].res>>>>
    /\ ListOf(resources, LANG_CHS)
         = <<<<declLog[1].id, declLog[1].res>>, <<declLog[2].id, declLog[2].res>>>>

\* ascending lexicographic order of (primary, sub)
C7_Precedes(a, b) == a[1] < b[1] \/ (a[1] = b[1] /\ a[2] < b[2])

\* the languages that hold a list when the document is serialized: those it
\* was created with and those a language-specific declaration named
C7_Keys ==
    declared \cup {L \in Langs : \E i \in 1..Len(declLog) : declLog[i].lang = Some(L)}

C7_SortedKeys ==
    [k \in 1..Cardinality(C7_Keys) |->
        CHOOSE l \in C7_Keys :
            Cardinality({m \in C7_Keys : C7_Precedes(m, l)}) = k - 1]

\* the declarations that reached the list of L, in call order
C7_Appended(L) ==
    LET idx == {i \in 1..Len(declLog) :
                  \/ declLog[i].lang = Some(L)
                  \/ /\ declLog[i].lang = None
                     /\ \/ L \in declared
                        \/ \E j \in 1..(i - 1) : declLog[j].lang = Some(L)}
    IN  [k \in 1..Cardinality(idx) |-> declLog[KthOf(idx, k)]]

C7_Segments(L) ==
    LET ds == C7_Appended(L)
    IN  Flatten([k \in 1..Len(ds) |->
                    Run(write_script_segment(L, ds[k].id, ResourcePool[ds[k].res],
                                             curDir), None).buf])

C7_Header == HEADER_LINE_1 \o HEADER_LINE_2 \o HEADER_LINE_3 \o HEADER_LINE_4

C7_Directive(l) ==
    LIT_LANGUAGE \o HexDigits(l[1]) \o LIT_COMMA_0X \o HexDigits(l[2]) \o LIT_NL

\* C7: the output is the header, once and first, followed by the segments
\* of the languages in ascending (primary, sub) order, each language's
\* segments in the order its resources were appended; every segment of an
\* earlier language precedes every segment of a later one.
C7_HeaderThenLanguagesInOrder ==
    phase = "generated" /\ out.st = "ok" =>
        /\ out.buf
             = C7_Header
                 \o Flatten([k \in 1..Len(C7_SortedKeys) |-> C7_Segments(C7_SortedKeys[k])])
        /\ Occurrences(out.buf, HEADER_LINE_1) = {1}
        /\ Occurrences(out.buf, HEADER_LINE_4)
             = {Len(C7_Header) - Len(HEADER_LINE_4) + 1}
        /\ \A l \in C7_Keys :
             \A i \in Occurrences(out.buf, C7_Directive(l)) : i > Len(C7_Header)
        /\ \A l1, l2 \in C7_Keys :
             C7_Precedes(l1, l2) =>
                \A i \in Occurrences(out.buf, C7_Directive(l1)),
                   j \in Occurrences(out.buf, C7_Directive(l2)) : i < j

C7_Witness ==
    /\ phase = "generated" /\ out.st = "ok"
    /\ declared = {LANG_ENU, LANG_CHS}
    /\ Cardinality(Occurrences(out.buf, C7_Directive(LANG_CHS))) = 2
    /\ Cardinality(Occurrences(out.buf, C7_Directive(LANG_ENU))) = 1
    /\ Len(declLog) = 2 /\ declLog[1].res # declLog[2].res

\* C8: a document holding a string table with (id, text) pairs for a
\* declared language renders a STRINGTABLE block for that language, with a
\* line on which the identifier token precedes the quoted text.
C8_StringTableRendered ==
    phase = "generated" =>
        \A L \in declared :
            \A i \in 1..Len(ListOf(resources, L)) :
                LET res == ResourcePool[ListOf(resources, L)[i][2]]
                    lines == SplitLines(out.buf)
                IN  res.kind = "StringTable" =>
                        /\ Occurrences(out.buf, KW_STRINGTABLE) # {}
                        /\ \A e \in 1..Len(res.data) :
                             res.data[e].key \in {None, Some(L)} =>
                                \A k \in 1..Len(res.data[e].val.strings) :
                                    LET id == res.data[e].val.strings[k][1]
                                        text == res.data[e].val.strings[k][2]
                                    IN  \E n \in 1..Len(lines) :
                                          \E a \in Occurrences(lines[n], DecDigits(id)),
                                             b \in Occurrences(lines[n],
                                                     LIT_QUOTE \o text \o LIT_QUOTE) :
                                             a < b

\* whether a text resolves for L: it has an entry for L or a universal one
C9_Resolves(text, L) == \E i \in 1..Len(text) : text[i].key \in {None, Some(L)}

\* the text shown to L
C9_TextFor(text, L) ==
    LET own == {i \in 1..Len(text) : text[i].key = Some(L)}
        any == {i \in 1..Len(text) : text[i].key = None}
    IN  IF own # {} THEN text[CHOOSE i \in own : TRUE].val
        ELSE text[CHOOSE i \in any : TRUE].val

\* the items whose own text and whose enclosing popups' texts all resolve
\* for L, parents before children, in list order
RECURSIVE C9_Shown(_, _)
C9_Shown(items, L) ==
    IF Len(items) = 0 THEN <<>>
    ELSE LET it == items[1]
         IN  (IF C9_Resolves(it.text, L)
              THEN <<it>> \o (IF Len(it.popup) = 1
                              THEN C9_Shown(it.popup[1].items, L) ELSE <<>>)
              ELSE <<>>)
                 \o C9_Shown(Tail(items), L)

\* the number of items, at any depth, whose own text resolves for L
RECURSIVE C9_ResolvingCount(_, _)
C9_ResolvingCount(items, L) ==
    IF Len(items) = 0 THEN 0
    ELSE LET it == items[1]
         IN  (IF C9_Resolves(it.text, L) THEN 1 ELSE 0)
                 + (IF Len(it.popup) = 1 THEN C9_ResolvingCount(it.popup[1].items, L)
                    ELSE 0)
                 + C9_ResolvingCount(Tail(items), L)

\* what an item's line starts with: the keyword and the quoted text
C9_LineStart(it, L) ==
    (IF Len(it.popup) = 1 THEN LIT_POPUP ELSE LIT_MENUITEM) \o LIT_SP
        \o Run(write_narrow_str(C9_TextFor(it.text, L)), None).buf

C10_Present(it) ==
    {k \in 1..4 :
        \/ k = 1 /\ Len(it.id) = 1
        \/ k = 2 /\ it.ty # 0
        \/ k = 3 /\ it.state # 0
        \/ k = 4 /\ Len(it.popup) = 1 /\ Len(it.popup[1].help_id) = 1}

C10_Field(it, k) ==
    CASE k = 1 -> DecDigits(it.id[1])
      [] k = 2 -> DecDigits(it.ty) \o LIT_L
      [] k = 3 -> DecDigits(it.state) \o LIT_L
      [] k = 4 -> DecSigned(it.popup[1].help_id[1]) \o LIT_L

\* one separator per field position up to the last present field, the
\* positions of absent fields left empty
C10_PositionalTail(it) ==
    LET present == C10_Present(it)
        last == IF present = {} THEN 0
                ELSE CHOOSE k \in present : \A j \in present : j <= k
    IN  Flatten([k \in 1..last |->
                    LIT_COMMA_SP \o (IF k \in present THEN C10_Field(it, k) ELSE <<>>)])

\* what follows the keyword and the quoted text on the line ln of item it
C10_Tail(ln, it, L) == SubSeq(ln, Len(C9_LineStart(it, L)) + 1, Len(ln))

\* C10 as stated: no comma when all four fields are absent, a comma only
\* when a field is present, and no separator between two consecutive absent
\* fields (the line never holds two empty positions in a row).
C10_NoSeparatorBetweenAbsent ==
    menuPhase = "rendered" =>
        \A L \in Langs :
            LET lines == ItemLines(menuOut[L].buf)
                shown == C9_Shown(menu, L)
            IN  \A k \in 1..Len(shown) :
                    LET tail == C10_Tail(lines[k], shown[k], L)
                    IN  /\ C10_Present(shown[k]) = {} => Occurrences(tail, <<44>>) = {}
                        /\ Occurrences(tail, LIT_COMMA_SP \o LIT_COMMA_SP \o LIT_COMMA_SP)
                             = {}

\* C10 amended: the fields are positional.  Nothing follows the text when
\* all four are absent; otherwise every position up to the last present
\* field is opened by one separator, whether its field is present or not,
\* and nothing is written after the last present field.
C10_PositionalSeparators ==
    menuPhase = "rendered" =>
        \A L \in Langs :
            LET lines == ItemLines(menuOut[L].buf)
                shown == C9_Shown(menu, L)
            IN  /\ Len(lines) = Len(shown)
                /\ \A k \in 1..Len(shown) :
                     C10_Tail(lines[k], shown[k], L) = C10_PositionalTail(shown[k])

C10_Witness ==
    /\ menuPhase = "rendered"
    /\ Len(menu) >= 1
    /\ C10_Present(menu[1]) = {3}
    /\ C10_Tail(ItemLines(menuOut[LANG_ENU].buf)[1], menu[1], LANG_ENU)
         = LIT_COMMA_SP \o LIT_COMMA_SP \o LIT_COMMA_SP \o <<56>> \o LIT_L

\* the control() and lang_specific_control() calls of the call history that
\* are universal or made for language L, in the order they were made
C11_Declared(L) ==
    SelectSeq(resLog, LAMBDA e : e.op = "control" /\ (e.lang = None \/ e.lang = Some(L)))

\* the line a dialog body shows for one declared control
C11_LineOf(L, e) ==
    LET shown == Run(write_control(L, <<e.id, e.arg>>), None).buf
    IN  SubSeq(shown, 1, Len(shown) - 1)

\* the lines of a rendered dialog from the opening brace on
C11_Body(L) ==
    LET lines == SplitLines(resOut.seg[L].buf)
        open == {i \in 1..Len(lines) : lines[i] = <<123>>}
    IN  IF open = {} THEN <<>>
        ELSE SubSeq(lines, CHOOSE i \in open : \A j \in open : i <= j, Len(lines))

\* C11: a dialog renders for every language L one line per control declared
\* universally or for L, in the order the controls were declared, between the
\* braces of its body; controls declared for another language are not shown.
C11_DialogControlsMerged ==
    (resPhase = "rendered" /\ builder.kind = "Dialog") =>
        \A L \in Langs :
            LET declared_for_L == C11_Declared(L)
            IN  C11_Body(L) =
                    <<<<123>>>>
                    \o [k \in 1..Len(declared_for_L) |-> C11_LineOf(L, declared_for_L[k])]
                    \o <<<<125>>>>

\* a language-specific control declared before a universal one, and a control
\* of another language: LANG_ENU shows two lines, LANG_CHT one
C11_Witness ==
    /\ resPhase = "rendered" /\ builder.kind = "Dialog" /\ Len(resLog) = 3
    /\ resLog[1].op = "control" /\ resLog[1].lang = Some(LANG_ENU)
    /\ resLog[2].op = "control" /\ resLog[2].lang = None
    /\ resLog[3].op = "control" /\ resLog[3].lang = Some(LANG_CHS)
    /\ resLog[1].id # resLog[2].id
    /\ Len(C11_Body(LANG_ENU)) = 4
    /\ Len(C11_Body(LANG_CHT)) = 3

\* some builder call of the history was universal or made for language L
C12_DeclaredFor(L) ==
    \E i \in 1..Len(resLog) : resLog[i].lang = None \/ resLog[i].lang = Some(L)

\* C12: serializing a string table that has data for language L under an
\* identifier other than 0 and 0xFFFF triggers the ignorability diagnostic,
\* and under 0xFFFF it does not; serialization completes either way.
C12_DiagnosticForOtherIds ==
    (resPhase = "rendered" /\ builder.kind = "StringTable") =>
        \A L \in Langs :
            C12_DeclaredFor(L) =>
                /\ resOut.seg[L].st = "ok"
                /\ resOut.seg[L].diag =
                       (IF resOut.id = IdOrName_Id(WORD_MAX) THEN <<>> ELSE <<resOut.id>>)

\* the brace-delimited block a resource's script ends with
C13_Braced(buf) ==
    /\ StartsWith(buf, LIT_LANGUAGE)
    /\ \E i \in 2..(Len(buf) - 1) : buf[i - 1] = 10 /\ buf[i] = 123 /\ buf[i + 1] = 10
    /\ Len(buf) >= 2
    /\ buf[Len(buf) - 1] = 125 /\ buf[Len(buf)] = 10

\* C13: a string table, accelerator table, menu, dialog, version info or raw
\* block emits nothing for a language nothing was declared for, and emits its
\* header, a newline and a brace-delimited body for a language something was
\* declared for (universally or for that language).
C13_SkippedOrBraced ==
    resPhase = "rendered" =>
        \A L \in Langs :
            IF C12_DeclaredFor(L)
            THEN C13_Braced(resOut.seg[L].buf)
            ELSE resOut.seg[L].buf = <<>>

\* C20: for a resource built through the public builder methods, rendering
\* for a language never aborts on data that is_missing_for_lang reported
\* present: when the check reports data, header extras and body are written
\* through to the closing brace.
C20_NoMissingDataAbort ==
    resPhase = "rendered" =>
        \A L \in Langs :
            /\ resOut.seg[L].why # "missing_data"
            /\ ~Data_is_missing_for_lang(Builder_build(builder), L) =>
                   /\ resOut.seg[L].st = "ok"
                   /\ C13_Braced(resOut.seg[L].buf)

\* an accelerator table with data for LANG_ENU only: rendered for LANG_ENU,
\* skipped for LANG_CHS
C20_Witness ==
    /\ resPhase = "rendered" /\ builder.kind = "Accelerators"
    /\ Len(resLog) = 2
    /\ \A i \in 1..2 : resLog[i].lang = Some(LANG_ENU)
    /\ resLog[1].op = "extra_info" /\ resLog[2].op = "event"
    /\ ~AcceleratorsData_is_missing_for_lang(builder.data, LANG_ENU)
    /\ C13_Braced(resOut.seg[LANG_ENU].buf)
    /\ AcceleratorsData_is_missing_for_lang(builder.data, LANG_CHS)
    /\ resOut.seg[LANG_CHS].buf = <<>>

\* the three octal digits whose value is the byte b
C14_Octal(b) ==
    CHOOSE t \in (48..55) \X (48..55) \X (48..55) :
        (t[1] - 48) * 64 + (t[2] - 48) * 8 + (t[3] - 48) = b

\* what the narrow escaping rule makes of one byte
C14_Byte(b) ==
    IF b \in 0..31 \/ b = 92 \/ b = 34 \/ b = 127
    THEN <<92>> \o C14_Octal(b)
    ELSE <<b>>

C14_Narrow(bytes) ==
    <<34>> \o Flatten([i \in 1..Len(bytes) |-> C14_Byte(bytes[i])]) \o <<34>>

\* C14: write_narrow_str writes a double quote, then for each byte of the
\* string in order a backslash and three octal digits if the byte is a
\* control character, the backslash, the double quote or DEL, and the byte
\* itself otherwise (bytes from 0x80 up included), then a double quote.
C14_NarrowEscaping ==
    cgIn.fn = "write_narrow_str" =>
        cgOut.st = "ok" /\ cgOut.buf = C14_Narrow(cgIn.arg)

\* DEL followed by a two-byte character
C14_Witness ==
    /\ cgIn = [fn |-> "write_narrow_str", arg |-> <<127, 195, 169>>]
    /\ cgOut.buf = <<34, 92, 49, 55, 55, 195, 169, 34>>

\* un-escaping by the octal rule: a backslash followed by three octal digits
\* stands for the byte of that value, every other byte for itself
RECURSIVE C15_Unescape(_)
C15_Unescape(s) ==
    IF s = <<>> THEN <<>>
    ELSE IF s[1] = 92 /\ Len(s) >= 4 /\ \A k \in 2..4 : s[k] \in 48..55
    THEN <<(s[2] - 48) * 64 + (s[3] - 48) * 8 + (s[4] - 48)>>
             \o C15_Unescape(SubSeq(s, 5, Len(s)))
    ELSE <<s[1]>> \o C15_Unescape(Tail(s))

\* C15: what write_narrow_str writes is a double quote, a body and a double
\* quote; un-escaping the body gives back the string's bytes; the body holds
\* no double quote, and every backslash in it is followed by three octal
\* digits.
C15_NarrowRoundTrip ==
    cgIn.fn = "write_narrow_str" =>
        LET buf == cgOut.buf
            body == SubSeq(buf, 2, Len(buf) - 1)
        IN  /\ Len(buf) >= 2 /\ buf[1] = 34 /\ buf[Len(buf)] = 34
            /\ C15_Unescape(body) = cgIn.arg
            /\ \A i \in 1..Len(body) :
                /\ body[i] # 34
                /\ body[i] = 92 =>
                       i + 3 <= Len(body) /\ \A k \in 1..3 : body[i + k] \in 48..55

\* a backslash followed by a digit: the escape is three digits long whatever
\* follows it
C15_Witness ==
    /\ cgIn = [fn |-> "write_narrow_str", arg |-> <<92, 48>>]
    /\ cgOut.buf = <<34, 92, 49, 51, 52, 48, 34>>

\* a 16-bit unit as four lowercase hex digits
C16_Hex4(u) ==
    [k \in 1..4 |->
        LET d == CASE k = 1 -> (u \div 4096) % 16
                   [] k = 2 -> (u \div 256) % 16
                   [] k = 3 -> (u \div 16) % 16
                   [] k = 4 -> u % 16
        IN  IF d < 10 THEN 48 + d ELSE 97 + (d - 10)]

\* the wide form with the units in verbatim shown as themselves
C16_Wide(units, verbatim) ==
    <<76, 34>>
    \o Flatten([i \in 1..Len(units) |->
                   IF units[i] = 92 THEN <<92, 92>>
                   ELSE IF units[i] \in verbatim THEN <<units[i]>>
                   ELSE <<92, 120>> \o C16_Hex4(units[i])])
    \o <<34>>

C16_Escaping(verbatim) ==
    /\ cgIn.fn = "write_wide_os_str" => cgOut.buf = C16_Wide(cgIn.arg, verbatim)
    /\ cgIn.fn = "write_os_str_prefer_narrow" =>
           cgOut.buf = (IF \A i \in 1..Len(cgIn.arg) : cgIn.arg[i] < 128
                        THEN C14_Narrow(cgIn.arg)
                        ELSE C16_Wide(cgIn.arg, verbatim))

\* C16 as stated: the wide form shows a backslash doubled, every other unit
\* of 0x20..0x7E as itself and the remaining units as \x and four hex
\* digits; the prefer-narrow variant is the narrow form exactly when every
\* unit is below 0x80.
C16_PrintableVerbatim == C16_Escaping(32..126)

\* C16: as above, except that the double quote is not shown as itself but
\* as \x0022.
C16_WideEscaping == C16_Escaping((32..126) \ {34})

\* a path with a double quote and a unit outside ASCII
C16_Witness ==
    /\ cgIn = [fn |-> "write_os_str_prefer_narrow", arg |-> <<34, 233>>]
    /\ cgOut.buf = <<76, 34, 92, 120, 48, 48, 50, 50, 92, 120, 48, 48, 101, 57, 34>>

\* the number a sequence of decimal digits stands for
RECURSIVE C17_Value(_)
C17_Value(digits) ==
    IF digits = <<>> THEN 0
    ELSE 10 * C17_Value(SubSeq(digits, 1, Len(digits) - 1)) + (digits[Len(digits)] - 48)

\* s is the decimal notation of n: a minus sign if n is negative, then digits
C17_IsDecimalOf(s, n) ==
    LET digits == IF n < 0 THEN Tail(s) ELSE s
    IN  /\ s # <<>> /\ (n < 0 => s[1] = 45)
        /\ digits # <<>>
        /\ \A i \in 1..Len(digits) : digits[i] \in 48..57
        /\ C17_Value(digits) = (IF n < 0 THEN 0 - n ELSE n)

\* C17: a c_int, c_long or DWORD is written as its decimal notation followed
\* by one L, whatever its magnitude; a c_uchar and an identifier (a WORD) are
\* written as their decimal notation alone.
C17_LongSuffix ==
    LET buf == cgOut.buf
    IN  /\ cgIn.fn \in {"write_c_int", "write_c_long", "write_dword", "write_mandatory_dword"} =>
               /\ Len(buf) >= 2 /\ buf[Len(buf)] = 76
               /\ C17_IsDecimalOf(SubSeq(buf, 1, Len(buf) - 1), cgIn.arg)
        /\ cgIn.fn \in {"write_c_uchar", "write_id"} => C17_IsDecimalOf(buf, cgIn.arg)

\* a small c_int still carries the suffix
C17_Witness ==
    /\ cgIn.fn = "write_c_int" /\ cgIn.arg = 7
    /\ cgOut.buf = <<55, 76>>

C21_Tabs(ln) ==
    LET other == {i \in 1..Len(ln) : ln[i] # 9}
    IN  IF other = {} THEN Len(ln) ELSE (CHOOSE i \in other : \A j \in other : i <= j) - 1

\* what a line of a menu body is
C21_Kind(ln) ==
    LET s == StripTabs(ln)
    IN  IF s = <<123>> THEN "open"
        ELSE IF s = <<125>> THEN "close"
        ELSE IF StartsWith(s, LIT_POPUP \o LIT_SP) THEN "popup"
        ELSE IF StartsWith(s, LIT_MENUITEM \o LIT_SP) THEN "item"
        ELSE "other"

\* the walk over the items visible to L: depth and kind of each line
RECURSIVE C21_Walk(_, _, _)
C21_Walk(L, items, d) ==
    IF items = <<>> THEN <<>>
    ELSE LET it == Head(items)
             here ==
                 IF ~IsSome(get(it.text, L)) THEN <<>>
                 ELSE IF IsSome(it.popup)
                 THEN <<[tabs |-> d, kind |-> "popup"], [tabs |-> d, kind |-> "open"]>>
                          \o C21_Walk(L, Unwrap(it.popup).items, d + 1)
                          \o <<[tabs |-> d, kind |-> "close"]>>
                 ELSE <<[tabs |-> d, kind |-> "item"]>>
         IN  here \o C21_Walk(L, Tail(items), d)

\* the lines of a rendered menu after its header line
C21_BodyLines(buf) ==
    LET lines == SplitLines(buf)
        open == {i \in 1..Len(lines) : lines[i] = <<123>>}
    IN  IF open = {} THEN <<>>
        ELSE SubSeq(lines, CHOOSE i \in open : \A j \in open : i <= j, Len(lines))

\* C21: the body of an emitted menu is an opening brace, then the walk over
\* the items visible to the language (an item at depth d on a line of d tabs,
\* a popup followed by a brace at d tabs, its visible children at depth d+1
\* and a closing brace at d tabs, top-level items at depth 1), then a closing
\* brace; the braces are balanced and never close more than was opened.
C21_MenuWalk ==
    menuPhase = "rendered" =>
        \A L \in Langs :
            menuOut[L].buf # <<>> =>
                LET lines == C21_BodyLines(menuOut[L].buf)
                    shape == [k \in 1..Len(lines) |->
                                 [tabs |-> C21_Tabs(lines[k]), kind |-> C21_Kind(lines[k])]]
                    level(k) ==
                        Cardinality({j \in 1..k : shape[j].kind = "open"})
                            - Cardinality({j \in 1..k : shape[j].kind = "close"})
                IN  /\ shape = <<[tabs |-> 0, kind |-> "open"]>>
                                  \o C21_Walk(L, menu, 1)
                                  \o <<[tabs |-> 0, kind |-> "close"]>>
                    /\ \A k \in 1..Len(lines) : level(k) >= 0
                    /\ level(Len(lines)) = 0

\* a popup inside a popup: LANG_CHS sees an item at depth 3
C21_Witness ==
    /\ menuPhase = "rendered" /\ Len(menu) = 2
    /\ menuOut[LANG_CHS].buf # <<>>
    /\ \E k \in 1..Len(C21_BodyLines(menuOut[LANG_CHS].buf)) :
        /\ C21_Tabs(C21_BodyLines(menuOut[LANG_CHS].buf)[k]) = 3
        /\ C21_Kind(C21_BodyLines(menuOut[LANG_CHS].buf)[k]) = "item"

\* the LANGUAGE directive of a language, with its newline
C22_Directive(lang) ==
    LIT_LANGUAGE \o HexDigits(lang[1]) \o LIT_COMMA_0X \o HexDigits(lang[2]) \o <<10>>

\* an identifier in decimal, a name as a narrow string
C22_IdText(id_or_name) ==
    IF id_or_name.tag = "Id" THEN DecDigits(id_or_name.num)
    ELSE C14_Narrow(id_or_name.name)

\* the header with the identifier left out for the keywords in bare
C22_Header(bare) ==
    cgIn.fn = "write_resource_header" =>
        LET a == cgIn.arg
        IN  cgOut.buf =
                C22_Directive(a.lang)
                \o (IF a.keyword \in bare THEN <<>>
                    ELSE IF a.keyword = KW_VERSIONINFO THEN <<49, 32>>
                    ELSE C22_IdText(a.id_or_name) \o <<32>>)
                \o a.keyword \o <<32>>

C23_For(m, lang) ==
    IF \E i \in 1..Len(m) : m[i].key = <<lang>>
    THEN <<m[CHOOSE i \in 1..Len(m) : m[i].key = <<lang>>].val>>
    ELSE IF \E i \in 1..Len(m) : m[i].key = <<>>
    THEN <<m[CHOOSE i \in 1..Len(m) : m[i].key = <<>>].val>>
    ELSE <<>>

\* the bytes a writer produces when no write fails
C23_Text(effects) == Run(effects, <<>>).buf

\* sep and the element's text when the element is there, no bytes otherwise
C23_Part(present, sep, text) == IF present THEN sep \o text ELSE <<>>

\* C23: the dialog header extras are, in this order, the rectangle, the
\* help id, the extra info, the caption, the class, the font, the menu
\* reference and the style statement; the rectangle is always there, every
\* other element only when it is set (resolved for the language rendered by
\* the override lookup where it is language-specific), behind its own
\* separator, and an element that is not set contributes no bytes.
C23_HeaderExtrasOrder ==
    cgIn.fn = "DialogData::write_resource_header_extras" =>
        LET d == cgIn.arg.data
            L == cgIn.arg.lang
            rect == C23_For(d.rect, L)
            help_id == C23_For(d.help_id, L)
            extra_info == C23_For(d.extra_info, L)
            caption == C23_For(d.caption, L)
            font == C23_For(d.font, L)
            basic == IF d.style = <<>> THEN <<>> ELSE d.style[1][1]
            extended == IF d.style = <<>> THEN <<>> ELSE d.style[1][2]
        IN  /\ cgOut.st = "ok"
            /\ cgOut.buf =
                <<32>> \o C23_Text(write_rect(IF rect = <<>> THEN Rect_new(0, 0, 0, 0) ELSE rect[1]))
                \o C23_Part(help_id # <<>>, <<44, 32>>, C23_Text(write_c_int(help_id[1])))
                \o C23_Part(extra_info # <<>> /\ extra_info[1].characteristics # <<>>, <<32>>,
                            C23_Text(write_dword(extra_info[1].characteristics[1])))
                \o C23_Part(extra_info # <<>> /\ extra_info[1].version # <<>>, <<32>>,
                            C23_Text(write_dword(extra_info[1].version[1])))
                \o C23_Part(caption # <<>>, <<10, 67, 65, 80, 84, 73, 79, 78, 32>>,
                            C14_Narrow(caption[1]))
                \o C23_Part(d.class # <<>>, <<10, 67, 76, 65, 83, 83, 32>>,
                            C22_IdText(d.class[1]))
                \o C23_Part(font # <<>>, <<10, 70, 79, 78, 84, 32>>,
                            C23_Text(write_font(font[1])))
                \o C23_Part(d.menu # <<>>, <<10, 77, 69, 78, 85, 32>>,
                            C22_IdText(d.menu[1]))
                \o C23_Part(basic # <<>>, <<10, 83, 84, 89, 76, 69, 32>>,
                            C23_Text(write_dword(basic[1])))
                \o C23_Part(extended # <<>>,
                            IF basic # <<>> THEN <<32, 69, 88, 83, 84, 89, 76, 69, 32>>
                            ELSE <<10, 69, 88, 83, 84, 89, 76, 69, 32>>,
                            C23_Text(write_dword(extended[1])))

\* a header rendered for LANG_CHS with every element set, the rectangle,
\* help id, caption and font overridden for that language
C23_Witness ==
    /\ cgIn.fn = "DialogData::write_resource_header_extras"
    /\ cgIn.arg.lang = LANG_CHS
    /\ \A f \in {"rect", "help_id", "caption", "font"} :
           /\ Len(cgIn.arg.data[f]) = 2
           /\ C23_For(cgIn.arg.data[f], LANG_CHS) # C23_For(cgIn.arg.data[f], LANG_ENU)
    /\ cgIn.arg.data.extra_info # <<>>
    /\ cgIn.arg.data.class # <<>>
    /\ cgIn.arg.data.menu # <<>>
    /\ cgIn.arg.data.style = <<<< <<WS_TABSTOP>>, <<WS_EX_CLIENTEDGE>> >>>>
    /\ StartsWith(cgOut.buf, <<32, 49, 76, 44, 32, 50, 76, 44, 32, 51, 48, 76, 44, 32, 52, 48, 76,
                              44, 32, 52, 76>>)

\* s ends with p
C24_EndsWith(s, p) == Len(s) >= Len(p) /\ SubSeq(s, Len(s) - Len(p) + 1, Len(s)) = p

\* C24: a control line ends with the control's rectangle (all zero when
\* none was given) and then: nothing when the control has neither style; a
\* comma and the basic style when it has only that; a comma, the empty
\* basic position, a comma and the extended style when it has only that; a
\* comma and the basic style, a comma and the extended style when it has
\* both.  No comma ends the line.
C24_ControlLineTail ==
    cgIn.fn = "write_control" =>
        LET c == cgIn.arg.control
            rect == IF c.rect = <<>> THEN Rect_new(0, 0, 0, 0) ELSE c.rect[1]
            basic == IF c.style = <<>> THEN <<>> ELSE c.style[1][1]
            extended == IF c.style = <<>> THEN <<>> ELSE c.style[1][2]
            dword(v) == DecDigits(v) \o <<76>>
            tail == IF basic = <<>> /\ extended = <<>> THEN <<>>
                    ELSE IF extended = <<>> THEN <<44, 32>> \o dword(basic[1])
                    ELSE IF basic = <<>> THEN <<44, 32, 44, 32>> \o dword(extended[1])
                    ELSE <<44, 32>> \o dword(basic[1]) \o <<44, 32>> \o dword(extended[1])
        IN  /\ cgOut.st = "ok"
            /\ C24_EndsWith(cgOut.buf,
                   <<44, 32>> \o C23_Text(write_rect(rect)) \o tail \o <<10>>)
            /\ ~C24_EndsWith(cgOut.buf, <<44, 10>>)
            /\ ~C24_EndsWith(cgOut.buf, <<44, 32, 10>>)

\* a list box with no rectangle and only an extended style
C24_Witness ==
    /\ cgIn.fn = "write_control"
    /\ cgIn.arg.control.rect = <<>>
    /\ cgIn.arg.control.style = <<<< <<>>, <<WS_EX_CLIENTEDGE>> >>>>
    /\ cgIn.arg.id = 1
    /\ cgOut.buf = <<9, 76, 73, 83, 84, 66, 79, 88, 32, 49, 44, 32,
                     48, 76, 44, 32, 48, 76, 44, 32, 48, 76, 44, 32, 48, 76,
                     44, 32, 44, 32, 53, 49, 50, 76, 10>>

\* the events among the builder calls made for scope (a language or None),
\* as the lines an accelerator body shows for them
C25_EventLines(scope) ==
    LET calls == SelectSeq(resLog, LAMBDA e : e.lang = scope /\ e.op = "event")
    IN  [k \in 1..Len(calls) |->
            LET shown == C23_Text(write_event(<<calls[k].id, calls[k].arg>>))
            IN  SubSeq(shown, 1, Len(shown) - 1)]

\* some builder call, of an event or of extra info, was made for scope
C25_AnyFor(scope) == \E i \in 1..Len(resLog) : resLog[i].lang = scope

\* C25: an accelerator table rendered for a language L for which an event
\* or extra info was declared shows exactly the events declared for L, in
\* declaration order, and no universal event; rendered for a language with
\* no declaration of its own it shows exactly the universal events; it is
\* skipped for L exactly when nothing was declared universally or for L.
C25_AcceleratorsOverride ==
    (resPhase = "rendered" /\ builder.kind = "Accelerators") =>
        \A L \in Langs :
            /\ (resOut.seg[L].buf = <<>>) <=> (~C25_AnyFor(<<L>>) /\ ~C25_AnyFor(<<>>))
            /\ resOut.seg[L].st = "ok"
            /\ C25_AnyFor(<<L>>) =>
                   C11_Body(L) = <<<<123>>>> \o C25_EventLines(<<L>>) \o <<<<125>>>>
            /\ (~C25_AnyFor(<<L>>) /\ C25_AnyFor(<<>>)) =>
                   C11_Body(L) = <<<<123>>>> \o C25_EventLines(<<>>) \o <<<<125>>>>

\* a universal event and then extra info for LANG_ENU alone: the body for
\* LANG_ENU is empty, the body for LANG_CHS shows the universal event, and a
\* table with one more event for LANG_CHS shows only that one
C25_Witness ==
    /\ resPhase = "rendered" /\ builder.kind = "Accelerators" /\ Len(resLog) = 3
    /\ resLog[1].op = "event" /\ resLog[1].lang = <<>>
    /\ resLog[2].op = "extra_info" /\ resLog[2].lang = <<LANG_ENU>>
    /\ resLog[3].op = "event" /\ resLog[3].lang = <<LANG_CHS>>
    /\ resLog[3].id # resLog[1].id
    /\ C11_Body(LANG_ENU) = <<<<123>>, <<125>>>>
    /\ Len(C11_Body(LANG_CHS)) = 3
    /\ C11_Body(LANG_CHS)[2] = C25_EventLines(<<LANG_CHS>>)[1]
    /\ Len(C11_Body(LANG_CHT)) = 3
    /\ C11_Body(LANG_CHT)[2] = C25_EventLines(<<>>)[1]

\* the number of items of a menu, at any depth
RECURSIVE C26_Count(_)
C26_Count(items) ==
    IF Len(items) = 0 THEN 0
    ELSE 1 + (IF Len(items[1].popup) = 1 THEN C26_Count(items[1].popup[1].items) ELSE 0)
           + C26_Count(Tail(items))

\* every item of a menu, at any depth, has a universal text
RECURSIVE C26_AllUniversal(_)
C26_AllUniversal(items) ==
    \A i \in 1..Len(items) :
        /\ \E k \in 1..Len(items[i].text) : items[i].text[k].key = <<>>
        /\ Len(items[i].popup) = 1 => C26_AllUniversal(items[i].popup[1].items)

\* C26: every item of a menu built through item(), separator() and popup()
\* has a universal text; so the menu rendered for any language shows one
\* line for every declared item, at any depth, and the menu is reported
\* missing for a language, and skipped, exactly when it has no item.
C26_EveryItemRendered ==
    builder.kind = "Menu" =>
        /\ C26_AllUniversal(builder.data)
        /\ C26_Count(builder.data) >= Len(resLog)
        /\ resPhase = "rendered" =>
               \A L \in Langs :
                   /\ Len(ItemLines(resOut.seg[L].buf)) = C26_Count(builder.data)
                   /\ MenuData_is_missing_for_lang(builder.data, L) <=> (resLog = <<>>)
                   /\ (resOut.seg[L].buf = <<>>) <=> (resLog = <<>>)

\* an item with a text overridden for LANG_CHS, a separator, and a popup
\* holding one item: four lines for every language
C26_Witness ==
    /\ builder.kind = "Menu" /\ resPhase = "rendered" /\ Len(resLog) = 3
    /\ resLog[1].op = "item" /\ Len(resLog[1].arg) = 2
    /\ resLog[2].op = "separator"
    /\ resLog[3].op = "popup"
    /\ C26_Count(builder.data) = 4
    /\ \A L \in Langs : Len(ItemLines(resOut.seg[L].buf)) = 4
    /\ ItemLines(resOut.seg[LANG_CHS].buf)[1] # ItemLines(resOut.seg[LANG_ENU].buf)[1]

\* the declarations a serialization visits, in the order it visits them:
\* language by language, each language's list in the order it was appended
C27_Visited ==
    LET keys == C7_SortedKeys
        RECURSIVE walk(_)
        walk(k) == IF k > Len(keys) THEN <<>>
                   ELSE [i \in 1..Len(C7_Appended(keys[k])) |->
                            [lang |-> keys[k], id |-> C7_Appended(keys[k])[i].id,
                             res |-> C7_Appended(keys[k])[i].res]]
                        \o walk(k + 1)
    IN  walk(1)

C27_IsUserDefined(res) == ResourcePool[res].kind = "UserDefined"

\* C27: serializing a document in which a UserDefined resource is in the
\* list of a declared language never succeeds: it aborts in the
\* unimplemented default renderer when it reaches the first such resource,
\* having written the header and the segments of the resources visited
\* before it, and nothing for the resource itself or after it.
C27_UserDefinedAborts ==
    (/\ phase = "generated"
     /\ \E L \in declared : \E i \in 1..Len(ListOf(resources, L)) :
            C27_IsUserDefined(ListOf(resources, L)[i][2])) =>
        LET visited == C27_Visited
            first == CHOOSE k \in 1..Len(visited) :
                        /\ C27_IsUserDefined(visited[k].res)
                        /\ \A j \in 1..(k - 1) : ~C27_IsUserDefined(visited[j].res)
        IN  /\ out.st = "panic"
            /\ out.why = "unimplemented"
            /\ out.buf = C7_Header
                   \o Flatten([k \in 1..(first - 1) |->
                          C23_Text(write_script_segment(visited[k].lang, visited[k].id,
                                       ResourcePool[visited[k].res], curDir))])

\* an icon for every language, then a UserDefined resource for LANG_ENU:
\* the icons of LANG_CHS and LANG_ENU are written, then the run aborts
C27_Witness ==
    /\ phase = "generated" /\ Len(declLog) = 2
    /\ declLog[1].lang = <<>> /\ declLog[1].res = 1
    /\ declLog[2].lang = <<LANG_ENU>> /\ C27_IsUserDefined(declLog[2].res)
    /\ out.st = "panic"
    /\ Cardinality(Occurrences(out.buf, KW_ICON)) = 2

\* the rectangle a dialog's header shows: the one given by rect(), all zero
\* when rect() was never called
C28_Rect ==
    LET calls == SelectSeq(resLog, LAMBDA e : e.op = "rect")
    IN  IF calls = <<>> THEN Rect_new(0, 0, 0, 0) ELSE calls[Len(calls)].arg

\* C28: a dialog is rendered for every language, whatever was declared on
\* it and for whom: the script is the LANGUAGE directive, a line that starts
\* with the identifier, DIALOGEX and the rectangle (all zero when none was
\* given), and a body in braces with one line per control declared
\* universally or for that language (none at all when there is none).
C28_DialogNeverSkipped ==
    (resPhase = "rendered" /\ builder.kind = "Dialog") =>
        \A L \in Langs :
            LET lines == SplitLines(resOut.seg[L].buf)
                body == C11_Body(L)
            IN  /\ resOut.seg[L].st = "ok"
                /\ Len(lines) >= 4
                /\ lines[1] \o <<10>> = C22_Directive(L)
                /\ StartsWith(lines[2],
                       C22_IdText(resOut.id) \o <<32>> \o KW_DIALOGEX \o <<32, 32>>
                           \o C23_Text(write_rect(C28_Rect)))
                /\ Len(body) = 2 + Len(C11_Declared(L))
                /\ body[1] = <<123>>
                /\ body[Len(body)] = <<125>>
                /\ lines[Len(lines)] = <<125>>

\* a dialog whose only declaration is a control for LANG_ENU: rendered for
\* LANG_CHS it is a header with the zero rectangle and an empty body
C28_Witness ==
    /\ resPhase = "rendered" /\ builder.kind = "Dialog"
    /\ Len(resLog) = 1 /\ resLog[1].op = "control" /\ resLog[1].lang = <<LANG_ENU>>
    /\ Len(C11_Body(LANG_ENU)) = 3
    /\ resOut.id = IdOrName_Id(5)
    /\ resOut.seg[LANG_CHS].buf
         = C22_Directive(LANG_CHS)
             \o <<53, 32>> \o KW_DIALOGEX
             \o <<32, 32, 48, 76, 44, 32, 48, 76, 44, 32, 48, 76, 44, 32, 48, 76, 10,
                  123, 10, 125, 10>>

\* the bytes the narrow writer escapes
C29_Escaped(b) == b < 32 \/ b \in {34, 92, 127}

\* one turn of the loop consumed the first n bytes of rest_string: a
\* maximal run of bytes that are not escaped, written as they are, or one
\* escaped byte, written as four bytes
C29_Turn ==
    LET rest == cgIn.rest_string
        n == Len(rest) - Len(cgIn'.rest_string)
        written == SubSeq(cgOut'.buf, Len(cgOut.buf) + 1, Len(cgOut'.buf))
    IN  /\ n >= 1
        /\ cgIn'.rest_string = SubSeq(rest, n + 1, Len(rest))
        /\ SubSeq(cgOut'.buf, 1, Len(cgOut.buf)) = cgOut.buf
        /\ \/ /\ \A i \in 1..n : ~C29_Escaped(rest[i])
              /\ n = Len(rest) \/ C29_Escaped(rest[n + 1])
              /\ written = SubSeq(rest, 1, n)
           \/ /\ n = 1
              /\ C29_Escaped(rest[1])
              /\ written = <<92>> \o C14_Octal(rest[1])

\* C29: the escaping loop of the narrow string writer ends for every
\* input.  Every turn consumes at least one byte from the front of what is
\* left (a maximal run of bytes that need no escape, or exactly one byte
\* that needs one), so every byte is consumed once and in order; when the
\* function returns nothing is left and the output is 2 + (bytes written as
\* they are) + 4 * (escaped bytes) long.
C29_NarrowLoopTerminates ==
    /\ <>(cgIn.pc = "returned")
    /\ [][(cgIn.pc = "while" /\ cgIn'.pc = "while") => C29_Turn]_vars
    /\ [](cgIn.pc = "returned" =>
            LET s == cgIn.arg
                escaped == Cardinality({i \in 1..Len(s) : C29_Escaped(s[i])})
            IN  /\ cgIn.rest_string = <<>>
                /\ Len(cgOut.buf) = 2 + (Len(s) - escaped) + 4 * escaped
                /\ cgOut.buf = C14_Narrow(s))

\* a run of two bytes written as they are, then one escaped byte
C29_Witness ==
    /\ cgIn.pc = "returned"
    /\ cgIn.arg = <<195, 169, 34>>
    /\ cgOut.buf = <<34, 195, 169, 92, 48, 52, 50, 34>>

\* bit i of the 32-bit value v
C30_Bit(v, i) == (v \div (2 ^ i)) % 2

\* the bitwise OR of two values below 2^31, bit by bit
C30_BitOr(a, b) ==
    LET RECURSIVE sum(_)
        sum(i) == IF i > 30 THEN 0
                  ELSE (IF C30_Bit(a, i) = 1 \/ C30_Bit(b, i) = 1 THEN 2 ^ i ELSE 0)
                       + sum(i + 1)
    IN  sum(0)

\* the OR of two optional values: absent when both are
C30_OptOr(a, b) ==
    IF a = <<>> THEN b
    ELSE IF b = <<>> THEN a
    ELSE <<C30_BitOr(a[1], b[1])>>

C30_Or(s, t) == <<C30_OptOr(s[1], t[1]), C30_OptOr(s[2], t[2])>>

\* the style each builder call supplies
C30_Supplied(call) ==
    IF call.op = "style" THEN call.arg
    ELSE IF call.op = "caption" THEN << <<12582912>>, <<>> >>
    ELSE << <<524288>>, <<>> >>

\* the OR of the styles supplied by the first n calls
RECURSIVE C30_Fold(_)
C30_Fold(n) ==
    IF n = 0 THEN << <<>>, <<>> >>
    ELSE C30_Or(C30_Fold(n - 1), C30_Supplied(resLog[n]))

\* C30: combining window styles is the OR of the basic components and of
\* the extended components, an absent component counting as no bits and the
\* result's component being absent only when it is absent in both operands;
\* the combination is commutative, associative and idempotent with the pair
\* (absent, absent) as identity; and after any calls of style(), caption()
\* and system_menu() on a dialog builder the stored style is the OR of all
\* the styles supplied, so no bit set by an earlier call is lost.
C30_StyleIsOrOfSupplied ==
    LET stored == IF builder.data.style = <<>> THEN << <<>>, <<>> >>
                  ELSE builder.data.style[1]
        vals == StyleChoices \cup {stored} \cup {C30_Supplied(resLog[i]) : i \in 1..Len(resLog)}
    IN  /\ (builder.data.style = <<>>) <=> (resLog = <<>>)
        /\ stored = C30_Fold(Len(resLog))
        /\ \A i \in 1..Len(resLog) :
               WindowStyle_bitor(stored, C30_Supplied(resLog[i])) = stored
        /\ \A a, b \in vals :
               /\ WindowStyle_bitor(a, b) = C30_Or(a, b)
               /\ WindowStyle_bitor(a, b) = WindowStyle_bitor(b, a)
               /\ WindowStyle_bitor(a, a) = a
               /\ WindowStyle_bitor(a, << <<>>, <<>> >>) = a
               /\ \A k \in 1..2 :
                      (WindowStyle_bitor(a, b)[k] = <<>>) <=> (a[k] = <<>> /\ b[k] = <<>>)
               /\ \A c \in vals :
                      WindowStyle_bitor(WindowStyle_bitor(a, b), c)
                          = WindowStyle_bitor(a, WindowStyle_bitor(b, c))

\* caption(), then style(CLIENT_EDGE), then system_menu(): the stored
\* style has the caption and system menu bits and the extended bit
C30_Witness ==
    /\ Len(resLog) = 3
    /\ resLog[1].op = "caption"
    /\ resLog[2].op = "style" /\ resLog[2].arg = << <<>>, <<512>> >>
    /\ resLog[3].op = "system_menu"
    /\ builder.data.style = << << <<13107200>>, <<512>> >> >>

====
